---- MODULE Spec2Model ----
(***************************************************************************)
(* web-rpc: two WebRPC routers, each in its own single-threaded context,   *)
(* joined by a bidirectional message channel.  A router owns WebRPCPort    *)
(* objects by name; a port owns its callback registry (callbacks) and its  *)
(* pending table (invocationDefers).                                       *)
(*                                                                         *)
(* One step of the model is one macrotask of one context: a user call, or  *)
(* the delivery of one message together with the promise reactions it      *)
(* releases.                                                               *)
(*                                                                         *)
(* The envelope of a message is its correlation id, its action tag and its *)
(* timestamp.  WebRPCPort writes them as id / _webrpc.action /             *)
(* _webrpc.timestamp, WebRPC.receive and isRPCMessage read them as         *)
(* invocationId / action / timestamp; the model has one envelope with the  *)
(* fields id, action and timestamp, and the id in its decoded form         *)
(* {clientId, portId, id}.                                                 *)
(*                                                                         *)
(* Ids are strings and the id functions work on their characters.          *)
(* Specifications: Spec (two routers and foreign posts), Closed (the two   *)
(* routers alone), Live (Closed with delivery and timers), AnyIds (ids     *)
(* that may contain '/'), Codec (the id functions on drawn strings),       *)
(* Cleanup (finalization and cleanup notices), Reads (property reads),     *)
(* Closing (close of a router), Events (listeners of the channel), Faulty  *)
(* (a transport whose send throws), Results (return values of handlers),   *)
(* Getters (reads of accessor properties), RoundTrip (serializeRequestData *)
(* and deserializeRequestData on drawn values), Tokens (calls that carry   *)
(* functions and accessors), Reentrant (senders that call the peer's       *)
(* receive inside send), PostMessagePort (one PostMessageTransport, its    *)
(* listeners and the messages posted to it).                               *)
(***************************************************************************)
EXTENDS Integers, Sequences, FiniteSets, TLC

\* ------------------------------------------------------------------ bounds
\* inputs of one run: user calls (proxy method calls and callback-proxy
\* calls) and raw values posted to a router from outside its peer
MaxCalls == 2
\* WebRPCPort objects constructed in one run
MaxPorts == 3

\* uid('invocation-********') draws: at most two for each input (a call and
\* the callback call its handler makes)
ActionPool == 2 * MaxCalls
\* uid('func-******') draws: at most one for each input
FuncPool == MaxCalls

Ctx == {1, 2}
Peer(c) == 3 - c
ClientIds == {"A", "B"}
\* the ids user code constructs a router with
RouterIds == ClientIds \cup {"test/client"}
PortNames == {"math"}
\* the names user code passes to register and get
Names == PortNames \cup {"test/port"}
\* the contexts whose user code obtains proxies and calls through them
Callers == {1}
PortRefs == 1..MaxPorts

\* ------------------------------------------------------------- JS values
CALLBACK_FLAG == "$$WEB-RPC-CALLBACK"
GETTER_FLAG == "$$WEB-RPC-GETTER"
InternalError == -32603

\* a property that is not there
Absent == [t |-> "absent"]
Undefined == [t |-> "undefined"]
Null == [t |-> "null"]
Num(n) == [t |-> "number", v |-> n]
Str(s) == [t |-> "string", v |-> s]
\* a function object of user code, named by its identity
Func(name) == [t |-> "function", name |-> name]
\* Symbol(description)
Sym(description) == [t |-> "symbol", v |-> description]
\* new Error(message)
Err(message) == [t |-> "object", instanceofError |-> TRUE, message |-> message, stack |-> Str("stack")]
\* the promise a handler returns: settled by the timer or with the call `on`
\* and then fulfilled with `value` (a promise for a call: with the call's value)
PromiseOf(on, value) == [t |-> "object", then |-> on, value |-> value]

\* an array
Arr(items) == [t |-> "array", v |-> items]
Bool(b) == [t |-> "boolean", v |-> b]
\* an accessor property: what a plain object holds for `get key() { ... }`
Accessor(get) == [t |-> "accessor", get |-> get]
\* an object or array with the label `at` is one object: two values with the
\* same label are the same object (===).  Inside it, Ref(at) is a reference
\* back to it.
Ref(at) == [t |-> "ref", at |-> at]
\* the property names of the plain objects of user code, in definition order
PropertyNames == <<"a", "b", "flag", "contextId", "id", "callback", "self", "nested", "value">>

TypeOf(v) ==
    CASE v.t = "null" -> "object"
      [] v.t = "array" -> "object"
      [] v.t = "absent" -> "undefined"
      [] OTHER -> v.t

isFunction(v) == TypeOf(v) = "function"

\* new ArrayBuffer(byteLength), new Uint8Array(buffer)
ArrayBuffer(byteLength) ==
    [t |-> "object", instanceofArrayBuffer |-> TRUE, byteLength |-> byteLength]
Uint8Array(buffer) == [t |-> "object", instanceofUint8Array |-> TRUE, buffer |-> buffer]

isTypedArray(value) == TypeOf(value) = "object" /\ "instanceofUint8Array" \in DOMAIN value

isTransferable(value) == TypeOf(value) = "object" /\ "instanceofArrayBuffer" \in DOMAIN value

isPlainObject(obj) ==
    /\ TypeOf(obj) = "object"
    /\ obj.t # "null"
    /\ obj.t # "array"
    /\ "instanceofError" \notin DOMAIN obj
    /\ "then" \notin DOMAIN obj
    /\ "instanceofArrayBuffer" \notin DOMAIN obj
    /\ "instanceofUint8Array" \notin DOMAIN obj

isPromiseLike(value) ==
    /\ TypeOf(value) = "object"
    /\ value.t # "null"
    /\ "then" \in DOMAIN value

isCallback(data) ==
    /\ TypeOf(data) = "object"
    /\ data.t # "null"
    /\ "flag" \in DOMAIN data
    /\ data.flag = Str(CALLBACK_FLAG)

isGetter(data) ==
    /\ TypeOf(data) = "object"
    /\ data.t # "null"
    /\ "flag" \in DOMAIN data
    /\ data.flag = Str(GETTER_FLAG)

\* String(reason)
String(reason) ==
    CASE reason.t = "string" -> reason.v
      [] reason.t = "number" -> ToString(reason.v)
      [] reason.t = "undefined" -> "undefined"
      [] reason.t = "null" -> "null"
      [] reason.t = "function" -> "function"
      [] "instanceofError" \in DOMAIN reason -> "Error: " \o reason.message
      [] OTHER -> "[object Object]"

\* uid(template): random hex digits for the stars; the n-th draw of a run,
\* the draws taken to be distinct
uid(template, n) == template \o ToString(n)

\* ------------------------------------------------------------- messages
\* Then(e, F) is F(e) with e evaluated once, as a JavaScript statement
\* evaluates its right-hand side once before the next statement reads it
Then(e, F(_)) == CHOOSE r \in {F(x) : x \in {e}} : TRUE

\* the outcome of a function that may throw: thrown is the message of the
\* Error ("" when it returned), value is what it returned
Return(value) == [thrown |-> "", value |-> value]
Throw(message, value) == [thrown |-> message, value |-> value]

\* String.prototype.includes for a one-character search string
includes(s, ch) == \E i \in 1..Len(s) : SubSeq(s, i, i) = ch

\* String.prototype.split(separator) for a one-character separator: the
\* pieces of s between the separators, from index start on
RECURSIVE splitFrom(_, _, _, _)
splitFrom(s, separator, start, i) ==
    IF i > Len(s) THEN <<SubSeq(s, start, Len(s))>>
    ELSE IF SubSeq(s, i, i) = separator
         THEN <<SubSeq(s, start, i - 1)>> \o splitFrom(s, separator, i + 1, i + 1)
         ELSE splitFrom(s, separator, start, i + 1)
split(s, separator) == splitFrom(s, separator, 1, 1)

createSafeId(id) ==
    IF includes(id, "/")
    THEN Throw("ID cannot contain forward slashes: " \o id, "")
    ELSE Return(id)

\* createInvocationId without the separator between clientId and portId
createInvocationId_Unseparated(clientId, portId, id) == clientId \o portId \o "/" \o id

\* `${clientId}/${portId}/${id}`
createInvocationId(clientId, portId, id) == clientId \o "/" \o portId \o "/" \o id

NoParts == [clientId |-> "", portId |-> "", id |-> ""]

\* parseInvocationId accepting any string of three parts or more
parseInvocationId_AtLeastThree(invocationId) ==
    LET parts == split(invocationId, "/") IN
    IF Len(parts) < 3
    THEN Throw("Invalid InvocationId format: " \o invocationId, NoParts)
    ELSE Return([clientId |-> createSafeId(parts[1]).value,
                 portId |-> createSafeId(parts[2]).value, id |-> parts[3]])

parseInvocationId(invocationId) ==
    Then(split(invocationId, "/"), LAMBDA parts :
    IF Len(parts) # 3
    THEN Throw("Invalid InvocationId format: " \o invocationId, NoParts)
    ELSE LET client == createSafeId(parts[1])
             port   == createSafeId(parts[2]) IN
         IF client.thrown # "" THEN Throw(client.thrown, NoParts)
         ELSE IF port.thrown # "" THEN Throw(port.thrown, NoParts)
         ELSE Return([clientId |-> client.value, portId |-> port.value, id |-> parts[3]]))

\* the id of an envelope: the port writes createInvocationId(...), the router
\* and the port read its parts; the envelope holds the parts
InvocationId(clientId, portId, id) ==
    Then(parseInvocationId(createInvocationId(clientId, portId, id)), LAMBDA parsed :
    [t |-> "object"] @@ parsed.value)

Message(id, action, timestamp, method, params, result, error) ==
    [t |-> "object", id |-> id, action |-> action, timestamp |-> timestamp,
     method |-> method, params |-> params, result |-> result, error |-> error]

CallMethodMessage(id, method, params) ==
    Message(id, Str("method-call"), Num(0), method, params, Absent, Absent)

ReturnResult(id, result) ==
    Message(id, Str("method-return"), Num(0), Absent, Absent, result, Absent)

ReturnError(id, error) ==
    Message(id, Str("method-return"), Num(0), Absent, Absent, Absent, error)

\* a cleanup notice as WebRPCPort.receive reads it: callbackId names the entry
CleanupCallbackMessage(id, callbackId) ==
    [t |-> "object", id |-> id, action |-> Str("cleanup-callback"), timestamp |-> Num(0),
     method |-> Absent, params |-> Absent, result |-> Absent, error |-> Absent,
     callbackId |-> callbackId]

ErrorInfo(code, message, stack) ==
    [t |-> "object", code |-> code, message |-> message, stack |-> stack]

isRPCMessage(data) ==
    /\ isPlainObject(data)
    /\ TypeOf(data.id) = "object"
    /\ TypeOf(data.action) = "string"
    /\ TypeOf(data.timestamp) = "number"
    /\ data.action.v \in {"method-call", "method-return"}

\* -------------------------------------------------------------- state
\* new PostMessageTransport(port): no listener on the target, an empty
\* cleanup array, no message posted
NoTransport ==
    [listeners |-> {}, cleanup |-> << >>, callbacks |-> << >>, closes |-> 0,
     calls |-> 0, posted |-> 0, queue |-> << >>, dispatched |-> {}, invoked |-> {}]

VARIABLES
    clientId,          \* WebRPC.clientId of each context's router
    ports,             \* WebRPC.ports: port name -> port object (0: no entry)
    portObj,           \* the constructed WebRPCPort objects: ctx, clientId, portId, localInstance
    portCount,         \* WebRPCPort objects constructed so far
    held,              \* the port objects whose remoteImplementation user code of a context holds
    callbacks,         \* WebRPCPort.callbacks of each port object
    invocationDefers,  \* WebRPCPort.invocationDefers of each port object (its keys)
    promise,           \* the Defer of every action id: state, value, and the call it stands for
    inbox,             \* messages sent to each context and not yet delivered
    tasks,             \* result.then(handleSuccess, handleError) registrations not yet run
    actionCount,       \* uid('invocation-********') draws so far
    funcCount,         \* uid('func-******') draws so far
    taskCount,         \* registrations made so far
    ran,               \* every run of a local method or callback: port, function, arguments
    callsFor,          \* per action id: Call messages that reached an endpoint
    returnsFor,        \* per action id: Return messages sent
    userCalls,         \* user calls made so far
    injected,          \* raw values injected so far
    raised,            \* the error the last step raised to its caller ("": none)
    codec,             \* the id functions applied to drawn inputs: arguments and results
    finalized,         \* the callback proxies whose FinalizationRegistry callback has run
    listening,         \* per context: the transport still has its message listener
    sendFails,         \* per context: Transport.send throws
    transport          \* a PostMessageTransport and its target: listeners, cleanup, messages

vars == <<clientId, ports, portObj, portCount, held, callbacks, invocationDefers,
          promise, inbox, tasks, actionCount, funcCount, taskCount, ran, callsFor,
          returnsFor, userCalls, injected, raised, codec, finalized, listening,
          sendFails, transport>>

\* the part of the state the port and router code reads and writes, as one value
Cur ==
    [callbacks |-> callbacks, invocationDefers |-> invocationDefers, promise |-> promise,
     inbox |-> inbox, tasks |-> tasks, actionCount |-> actionCount, funcCount |-> funcCount,
     taskCount |-> taskCount, ran |-> ran, callsFor |-> callsFor, returnsFor |-> returnsFor,
     raised |-> ""]

Commit(s) ==
    /\ callbacks' = s.callbacks
    /\ invocationDefers' = s.invocationDefers
    /\ promise' = s.promise
    /\ inbox' = s.inbox
    /\ tasks' = s.tasks
    /\ actionCount' = s.actionCount
    /\ funcCount' = s.funcCount
    /\ taskCount' = s.taskCount
    /\ ran' = s.ran
    /\ callsFor' = s.callsFor
    /\ returnsFor' = s.returnsFor

ActionIds == {uid("invocation-", n) : n \in 1..ActionPool}
FuncIds == {uid("func-", n) : n \in 1..FuncPool}

\* ------------------------------------------------- local implementations
\* the objects handed to register(), by name; get() constructs "empty"
Instance(name) ==
    IF name = "service"
    THEN [add |-> Func("add"), throwError |-> Func("throwError"),
          asyncMethod |-> Func("asyncMethod"), getCallback |-> Func("getCallback"),
          executeCallback |-> Func("executeCallback"), version |-> Num(1)]
    ELSE IF name = "getterTester"
    THEN [execute |-> Func("execute")]
    ELSE << >>

hasOwnProperty(instance, key) == key.t = "string" /\ key.v \in DOMAIN instance

\* ------------------------------------------------------------ transport
\* an Error leaves the running code uncaught
Raise(s, message) == [s EXCEPT !.raised = message]

\* Transport.send of context c: the message is on its way to the peer, or
\* the transport throws
send(s, c, data) ==
    LET s1 == [s EXCEPT !.inbox[Peer(c)] = Append(@, data)]
    IN  IF sendFails[c]
        THEN Raise(s, "Transport error")
        ELSE IF data.action = Str("method-return") /\ data.id.t = "object"
             THEN [s1 EXCEPT !.returnsFor[data.id.id] = @ + 1]
             ELSE s1

\* ------------------------------------------------- serializeRequestData
\* what a Set or a Map tells values apart by: an object that carries a label
\* is that object and no other; a value without one is told by what it holds
Identity(value) == IF "at" \in DOMAIN value THEN [at |-> value.at] ELSE value

\* the own property names of a plain object, in the order they were defined
OwnKeys(obj) == SelectSeq(PropertyNames, LAMBDA key : key \in DOMAIN obj)

\* a value held inside the object `obj`, as the code that takes it out of obj
\* sees it: a reference back to obj is obj
RECURSIVE Bind(_, _)
Bind(value, obj) ==
    IF "at" \notin DOMAIN obj THEN value
    ELSE CASE value.t = "ref" -> IF value.at = obj.at THEN obj ELSE value
           [] value.t = "array" ->
                 [value EXCEPT !.v = [i \in 1..Len(value.v) |-> Bind(value.v[i], obj)]]
           [] value.t = "object" /\ isPlainObject(value) ->
                 [key \in DOMAIN value |->
                     IF key \in {"t", "at"} THEN value[key] ELSE Bind(value[key], obj)]
           [] OTHER -> value

Max(S) == CHOOSE n \in S : \A m \in S : m <= n

\* the last label in use in a value: the objects made from it take the next ones
RECURSIVE LastLabel(_)
LastLabel(v) ==
    Then(v, LAMBDA value :
    Max({0} \cup (IF "at" \in DOMAIN value THEN {value.at} ELSE {})
        \cup (IF value.t = "array"
              THEN {LastLabel(value.v[i]) : i \in 1..Len(value.v)}
              ELSE IF value.t = "object" /\ isPlainObject(value)
                   THEN {LastLabel(value[key]) : key \in DOMAIN value \ {"t", "at"}}
                   ELSE {})))

\* the label of the next object made: none of those of the input, none of
\* those made so far
NextLabel(acc) == LastLabel(Arr(acc.input)) + acc.at + 1

\* a new object or array made while `source` is worked on: the next label
\* when objects carry labels
New(source, acc, obj) ==
    IF "at" \in DOMAIN source THEN ("at" :> NextLabel(acc)) @@ obj ELSE obj

Allocate(source, acc) ==
    IF "at" \in DOMAIN source THEN [acc EXCEPT !.at = @ + 1] ELSE acc

\* { flag, contextId, id: uid('func-******') }, functions.set(functionId, func)
createToken(flag, contextId, func, acc) ==
    LET functionId == uid("func-", acc.n + 1)
    IN  [acc EXCEPT !.out = [t |-> "object", flag |-> Str(flag),
                             contextId |-> Str(contextId), id |-> Str(functionId)],
                    !.functions = (functionId :> func) @@ @,
                    !.n = @ + 1]

createFunctionCallback(contextId, func, acc) == createToken(CALLBACK_FLAG, contextId, func, acc)

createGetterObject(contextId, getter, acc) == createToken(GETTER_FLAG, contextId, getter, acc)

collectTransferables(value, acc) ==
    IF isTypedArray(value)
    THEN [acc EXCEPT !.transferables = @ \cup {value.buffer}]
    ELSE IF isTransferable(value)
         THEN [acc EXCEPT !.transferables = @ \cup {value}]
         ELSE acc

RECURSIVE processValue(_, _, _)

\* a processPropertyDescriptor without its last branch: a property that is
\* neither an accessor nor a function is not defined on the target
processPropertyDescriptor_Skip(contextId, targetObject, key, descriptor, originalValue, acc) ==
    IF descriptor.t = "accessor"
    THEN Then(createGetterObject(contextId, descriptor.get, acc), LAMBDA next :
              [next EXCEPT !.out = (key :> next.out) @@ targetObject])
    ELSE [acc EXCEPT !.out = targetObject]

\* descriptor: the property as the object holds it; the result's out is
\* targetObject with the property defined
processPropertyDescriptor(contextId, targetObject, key, descriptor, originalValue, acc) ==
    IF descriptor.t = "accessor"
    THEN Then(createGetterObject(contextId, descriptor.get, acc), LAMBDA next :
              [next EXCEPT !.out = (key :> next.out) @@ targetObject])
    ELSE IF TypeOf(originalValue) = "function"
         THEN Then(processValue(contextId, originalValue, acc), LAMBDA next :
                   [next EXCEPT !.out = (key :> next.out) @@ targetObject])
         ELSE [acc EXCEPT !.out = (key :> originalValue) @@ targetObject]

\* for (const key in descriptors) from the i-th key on; obj[key] runs the
\* getter of an accessor property, and its value is not used
RECURSIVE processDescriptors(_, _, _, _, _)
processDescriptors(contextId, obj, i, transformedObject, acc) ==
    IF i > Len(OwnKeys(obj)) THEN [acc EXCEPT !.out = transformedObject]
    ELSE Then(OwnKeys(obj)[i], LAMBDA key :
         Then(processPropertyDescriptor(contextId, transformedObject, key, obj[key],
                                        Bind(obj[key], obj), acc), LAMBDA next :
              processDescriptors(contextId, obj, i + 1, next.out, next)))

processPlainObject(contextId, obj, acc) ==
    processDescriptors(contextId, obj, 1, New(obj, acc, [t |-> "object"]),
                       Allocate(obj, acc))

\* value.map(item => processValue(item)) from the i-th item on
RECURSIVE mapProcessValue(_, _, _, _, _)
mapProcessValue(contextId, value, i, items, acc) ==
    IF i > Len(value.v) THEN [acc EXCEPT !.out = items]
    ELSE Then(Bind(value.v[i], value), LAMBDA item :
         Then(processValue(contextId, item, acc), LAMBDA next :
              mapProcessValue(contextId, value, i + 1, Append(items, next.out), next)))

\* the result's out is the value returned
processValue(contextId, value, acc) ==
    IF Identity(value) \in acc.processedItems
    THEN [acc EXCEPT !.out = value]
    ELSE Then([acc EXCEPT !.processedItems = @ \cup {Identity(value)}], LAMBDA acc1 :
         IF value.t = "array"
         THEN Then(mapProcessValue(contextId, value, 1, << >>, Allocate(value, acc1)),
                   LAMBDA next : [next EXCEPT !.out = New(value, acc1, Arr(next.out))])
         ELSE IF isPlainObject(value)
         THEN processPlainObject(contextId, value, acc1)
         ELSE IF TypeOf(value) = "function"
         THEN createFunctionCallback(contextId, value, acc1)
         ELSE [collectTransferables(value, acc1) EXCEPT !.out = value])

\* data.map(item => processValue(item)) from the i-th item on
RECURSIVE processItems(_, _, _, _)
processItems(contextId, data, i, acc) ==
    IF i > Len(data) THEN acc
    ELSE Then(processValue(contextId, data[i], acc), LAMBDA next :
              processItems(contextId, data, i + 1, [next EXCEPT !.data = Append(@, next.out)]))

\* n: the uid draws made before the call; the result's n: after it
serializeRequestData(contextId, items, n) ==
    Then(items, LAMBDA data :
    Then([data |-> << >>, functions |-> << >>, transferables |-> {},
          processedItems |-> {}, n |-> n,
          input |-> data, at |-> 0, out |-> Undefined], LAMBDA acc :
         processItems(contextId, data, 1, acc)))

\* ----------------------------------------------- deserializeRequestData
\* the callable a callback token becomes on port p: invoking it is
\* invokeCallback(value.id, args) of that port
CallbackProxy(p, id) == [t |-> "function", name |-> "callback", port |-> p, id |-> id]

\* the get function of the accessor a getter token becomes on port p:
\* () => invokeCallback(originalValue.id, [])
GetterProxy(p, id) == [t |-> "function", name |-> "get", port |-> p, id |-> id]

\* handled.set(value, result) before the children of value are visited:
\* while they are, the entry is the result under construction
Begin(value, acc) ==
    IF "at" \in DOMAIN value
    THEN [acc EXCEPT !.at = @ + 1,
                     !.handled = (Identity(value) :> Ref(NextLabel(acc))) @@ @]
    ELSE acc

\* the result of value is complete: next is the state after its children
Finish(value, acc, next, result) ==
    Then(New(value, acc, result), LAMBDA made :
         [next EXCEPT !.out = made, !.handled = (Identity(value) :> made) @@ @])

\* a transform that leaves callback tokens as they are
transform_KeepToken(p, value, acc) == [acc EXCEPT !.out = value]

RECURSIVE transform(_, _, _)

\* value.map(it => ...) from the i-th element on
RECURSIVE mapTransform(_, _, _, _, _)
mapTransform(p, value, i, items, acc) ==
    IF i > Len(value.v) THEN [acc EXCEPT !.out = items]
    ELSE Then(Bind(value.v[i], value), LAMBDA it :
         IF Identity(it) \in DOMAIN acc.handled
         THEN mapTransform(p, value, i + 1, Append(items, acc.handled[Identity(it)]), acc)
         ELSE Then(transform(p, it, acc), LAMBDA next :
                   mapTransform(p, value, i + 1, Append(items, next.out),
                                [next EXCEPT !.handled = (Identity(it) :> next.out) @@ @])))

\* for (const key in descriptors) from the i-th key on
RECURSIVE transformProperties(_, _, _, _, _)
transformProperties(p, value, i, object, acc) ==
    IF i > Len(OwnKeys(value)) THEN [acc EXCEPT !.out = object]
    ELSE Then(OwnKeys(value)[i], LAMBDA key :
         Then(Bind(value[key], value), LAMBDA originalValue :
         IF isGetter(originalValue)
         THEN transformProperties(p, value, i + 1,
                  (key :> Accessor(GetterProxy(p, originalValue.id.v))) @@ object, acc)
         ELSE Then(transform(p, originalValue, acc), LAMBDA next :
                   transformProperties(p, value, i + 1, (key :> next.out) @@ object, next))))

\* the result's out is the value returned
transform(p, value, acc) ==
    IF Identity(value) \in DOMAIN acc.handled
    THEN [acc EXCEPT !.out = acc.handled[Identity(value)]]
    ELSE IF isCallback(value)
    THEN Then(CallbackProxy(p, value.id.v), LAMBDA callback :
              [acc EXCEPT !.out = callback,
                          !.handled = (Identity(value) :> callback) @@ @])
    ELSE IF value.t = "array"
    THEN Then(mapTransform(p, value, 1, << >>, Begin(value, acc)), LAMBDA next :
              Finish(value, acc, next, Arr(next.out)))
    ELSE IF isPlainObject(value)
    THEN Then(transformProperties(p, value, 1, [t |-> "object"], Begin(value, acc)),
              LAMBDA next : Finish(value, acc, next, next.out))
    ELSE [acc EXCEPT !.out = value]

\* data.map(transform) from the i-th item on
RECURSIVE transformItems(_, _, _, _)
transformItems(p, data, i, acc) ==
    IF i > Len(data) THEN acc
    ELSE Then(transform(p, data[i], acc), LAMBDA next :
              transformItems(p, data, i + 1, [next EXCEPT !.data = Append(@, next.out)]))

deserializeRequestData(p, items) ==
    Then(items, LAMBDA data :
    Then([data |-> << >>, handled |-> << >>, input |-> data, at |-> 0,
          out |-> Undefined], LAMBDA acc :
         transformItems(p, data, 1, acc).data))

\* ------------------------------------------------------------ WebRPCPort
LastActionId(s) == uid("invocation-", s.actionCount)

\* invokeRemoteMethod with invocationDefers.set before transport.send
invokeRemoteMethod_SetFirst(s, p, methodName, args) ==
    Then(s, LAMBDA s0 :
    Then(serializeRequestData(portObj[p].portId, args, s0.funcCount), LAMBDA ser :
    Then(CallMethodMessage(
             InvocationId(portObj[p].clientId, portObj[p].portId,
                          uid("invocation-", s0.actionCount + 1)),
             methodName, Arr(ser.data)), LAMBDA req :
    LET actionId == uid("invocation-", s0.actionCount + 1)
        s1 == [s0 EXCEPT !.actionCount = @ + 1,
                         !.funcCount = ser.n,
                         !.callbacks[p] = ser.functions @@ @,
                         !.invocationDefers[p] = @ \cup {actionId}]
        s2 == send(s1, portObj[p].ctx, req)
    IN  IF sendFails[portObj[p].ctx]
        THEN [s1 EXCEPT !.promise = (actionId :> [state |-> "rejected",
                                                  value |-> Err("Transport error"),
                                                  port |-> p, method |-> methodName,
                                                  args |-> args]) @@ @]
        ELSE [s2 EXCEPT !.promise = (actionId :> [state |-> "pending", value |-> Undefined,
                                                  port |-> p, method |-> methodName,
                                                  args |-> args]) @@ @])))

\* invokeRemoteMethod without this.callbacks.set(functionId, func)
invokeRemoteMethod_NoRegister(s, p, methodName, args) ==
    Then(s, LAMBDA s0 :
    Then(serializeRequestData(portObj[p].portId, args, s0.funcCount), LAMBDA ser :
    Then(CallMethodMessage(
             InvocationId(portObj[p].clientId, portObj[p].portId,
                          uid("invocation-", s0.actionCount + 1)),
             methodName, Arr(ser.data)), LAMBDA req :
    LET actionId == uid("invocation-", s0.actionCount + 1)
        s1 == [s0 EXCEPT !.actionCount = @ + 1, !.funcCount = ser.n]
        s2 == send(s1, portObj[p].ctx, req)
    IN  [s2 EXCEPT !.invocationDefers[p] = @ \cup {actionId},
                   !.promise = (actionId :> [state |-> "pending", value |-> Undefined,
                                             port |-> p, method |-> methodName,
                                             args |-> args]) @@ @])))

\* invokeRemoteMethod without invocationDefers.set(actionId, defer)
invokeRemoteMethod_NoDefer(s, p, methodName, args) ==
    Then(s, LAMBDA s0 :
    Then(serializeRequestData(portObj[p].portId, args, s0.funcCount), LAMBDA ser :
    Then(CallMethodMessage(
             InvocationId(portObj[p].clientId, portObj[p].portId,
                          uid("invocation-", s0.actionCount + 1)),
             methodName, Arr(ser.data)), LAMBDA req :
    LET actionId == uid("invocation-", s0.actionCount + 1)
        s1 == [s0 EXCEPT !.actionCount = @ + 1,
                         !.funcCount = ser.n,
                         !.callbacks[p] = ser.functions @@ @]
        s2 == send(s1, portObj[p].ctx, req)
    IN  [s2 EXCEPT !.promise = (actionId :> [state |-> "pending", value |-> Undefined,
                                             port |-> p, method |-> methodName,
                                             args |-> args]) @@ @])))

\* the state after the call; the promise it returns is that of LastActionId
invokeRemoteMethod(s, p, methodName, args) ==
    Then(s, LAMBDA s0 :
    Then(serializeRequestData(portObj[p].portId, args, s0.funcCount), LAMBDA ser :
    Then(CallMethodMessage(
             InvocationId(portObj[p].clientId, portObj[p].portId,
                          uid("invocation-", s0.actionCount + 1)),
             methodName, Arr(ser.data)), LAMBDA req :
    LET actionId == uid("invocation-", s0.actionCount + 1)
        s1 == [s0 EXCEPT !.actionCount = @ + 1,
                         !.funcCount = ser.n,
                         !.callbacks[p] = ser.functions @@ @]
        s2 == send(s1, portObj[p].ctx, req)
    IN  IF sendFails[portObj[p].ctx]
        THEN \* an async function: the Error send throws rejects the promise
             \* the call returns
             [s1 EXCEPT !.promise = (actionId :> [state |-> "rejected",
                                                  value |-> Err("Transport error"),
                                                  port |-> p, method |-> methodName,
                                                  args |-> args]) @@ @]
        ELSE [s2 EXCEPT !.invocationDefers[p] = @ \cup {actionId},
                        !.promise = (actionId :> [state |-> "pending", value |-> Undefined,
                                                  port |-> p, method |-> methodName,
                                                  args |-> args]) @@ @])))

\* What the functions of user code do.  The result is the state after the
\* run with `out` ("return" or "throw") and `value` (the value returned or
\* thrown).
Outcome(s, out, value) == [s |-> s, out |-> out, value |-> value]

Apply(s, p, method, args) ==
    LET s0 == [s EXCEPT !.ran = @ \cup {[port |-> p, method |-> method, args |-> args]}]
        arg1 == IF Len(args) >= 1 THEN args[1] ELSE Undefined
        arg2 == IF Len(args) >= 2 THEN args[2] ELSE Undefined
    IN  CASE "port" \in DOMAIN method ->
                \* a callback proxy: (...args) => invokeCallback(value.id, args)
                Then(invokeRemoteMethod(s0, method.port, Str(method.id), args),
                     LAMBDA s1 : Outcome(s1, "return", PromiseOf(LastActionId(s1), Undefined)))
          [] method.name = "add" ->
                IF arg1.t = "number" /\ arg2.t = "number"
                THEN Outcome(s0, "return", Num(arg1.v + arg2.v))
                ELSE Outcome(s0, "return", Undefined)
          [] method.name = "throwError" ->
                Outcome(s0, "throw", Err("Test error"))
          [] method.name = "asyncMethod" ->
                \* async value => { await timer; return value + 10 }
                Outcome(s0, "return",
                        PromiseOf("timer", IF arg1.t = "number" THEN Num(arg1.v + 10)
                                           ELSE Undefined))
          [] method.name = "getCallback" ->
                Outcome(s0, "return", Func("g"))
          [] method.name = "executeCallback" ->
                \* cb => cb('x')
                IF isFunction(arg1) /\ "port" \in DOMAIN arg1
                THEN Then(invokeRemoteMethod(s0, arg1.port, Str(arg1.id), <<Str("x")>>),
                          LAMBDA s1 : Outcome(s1, "return",
                                              PromiseOf(LastActionId(s1), Undefined)))
                ELSE Outcome(s0, "throw", Err("callback is not a function"))
          [] method.name = "f" ->
                \* value => value + 'y'
                IF arg1.t = "string"
                THEN Outcome(s0, "return", Str(arg1.v \o "y"))
                ELSE Outcome(s0, "return", Str(String(arg1) \o "y"))
          [] method.name = "bad" ->
                Outcome(s0, "throw", Err("callback failed"))
          [] method.name = "execute" ->
                \* () => { return { get value() { return 'secret'; } }; }
                Outcome(s0, "return", [t |-> "object", value |-> Accessor(Func("get value"))])
          [] method.name = "get value" ->
                Outcome(s0, "return", Str("secret"))
          [] method.name = "resolve" ->
                \* (data) => { resolve(data); }
                Outcome(s0, "return", Undefined)
          [] OTHER ->
                \* g
                Outcome(s0, "return", Num(7))

\* a handleSuccess that leaves the result property out when there is no result
handleSuccess_OmitUndefined(s, p, invocationId, result) ==
    Then(s, LAMBDA s0 :
    Then(serializeRequestData(portObj[p].portId, <<result>>, s0.funcCount), LAMBDA ser :
    LET s1 == [s0 EXCEPT !.funcCount = ser.n,
                         !.callbacks[p] = ser.functions @@ @]
    IN  send(s1, portObj[p].ctx,
             ReturnResult(invocationId,
                          IF ser.data[1] = Undefined THEN Absent ELSE ser.data[1]))))

\* handleSuccess without this.callbacks.set(functionId, func)
handleSuccess_NoRegister(s, p, invocationId, result) ==
    Then(s, LAMBDA s0 :
    Then(serializeRequestData(portObj[p].portId, <<result>>, s0.funcCount), LAMBDA ser :
    send([s0 EXCEPT !.funcCount = ser.n], portObj[p].ctx,
         ReturnResult(invocationId, ser.data[1]))))

handleSuccess(s, p, invocationId, result) ==
    Then(s, LAMBDA s0 :
    Then(serializeRequestData(portObj[p].portId, <<result>>, s0.funcCount), LAMBDA ser :
    LET s1 == [s0 EXCEPT !.funcCount = ser.n,
                         !.callbacks[p] = ser.functions @@ @]
    IN  send(s1, portObj[p].ctx, ReturnResult(invocationId, ser.data[1]))))

instanceofError(reason) == TypeOf(reason) = "object" /\ "instanceofError" \in DOMAIN reason

\* an error handler that lets the reason escape instead of answering
handleError_Rethrow(s, p, invocationId, reason) ==
    Raise(s, IF instanceofError(reason) THEN reason.message ELSE String(reason))

handleError(s, p, invocationId, reason) ==
    send(s, portObj[p].ctx,
         ReturnError(invocationId,
             ErrorInfo(InternalError,
                       IF instanceofError(reason) THEN reason.message ELSE String(reason),
                       IF instanceofError(reason) THEN reason.stack ELSE Undefined)))

\* an invokeLocalMethod that answers with whatever the method returned, a
\* promise included, without waiting for it
invokeLocalMethod_NoWait(s, p, invocationId, method, args) ==
    Then(Apply(s, p, method, args), LAMBDA r :
        IF r.out = "throw"
        THEN handleError(r.s, p, invocationId, r.value)
        ELSE handleSuccess(r.s, p, invocationId,
                           IF isPromiseLike(r.value) THEN Undefined ELSE r.value))

invokeLocalMethod(s, p, invocationId, method, args) ==
    Then(Apply(s, p, method, args), LAMBDA r :
        IF r.out = "throw"
        THEN handleError(r.s, p, invocationId, r.value)
        ELSE IF isPromiseLike(r.value)
             THEN [r.s EXCEPT !.taskCount = @ + 1,
                              !.tasks = @ \cup {[port |-> p, id |-> invocationId,
                                                 on |-> r.value.then, value |-> r.value.value,
                                                 n |-> r.s.taskCount + 1]}]
             ELSE handleSuccess(r.s, p, invocationId, r.value))

\* a handleMethodCall that forgets a registered function once it has run
handleMethodCall_Once(state, p, message) ==
    Then(state, LAMBDA s :
    IF message.params.t # "array"
    THEN Raise(s, "TypeError: Cannot read properties of undefined (reading 'map')")
    ELSE
    LET args == deserializeRequestData(p, message.params.v)
        localInstance == Instance(portObj[p].localInstance)
        own == hasOwnProperty(localInstance, message.method)
    IN  IF own /\ ~isFunction(localInstance[message.method.v])
        THEN Raise(s, "TypeError: this.localInstance[message.method].bind is not a function")
        ELSE IF ~own /\ ~(message.method.t = "string"
                          /\ message.method.v \in DOMAIN s.callbacks[p])
             THEN Raise(s, "Method not found")
             ELSE IF own
                  THEN invokeLocalMethod(s, p, message.id, localInstance[message.method.v], args)
                  ELSE Then(invokeLocalMethod(s, p, message.id,
                                              s.callbacks[p][message.method.v], args),
                            LAMBDA s1 :
                            [s1 EXCEPT !.callbacks[p] =
                                [k \in DOMAIN @ \ {message.method.v} |-> @[k]]]))

handleMethodCall(state, p, message) ==
    Then(state, LAMBDA s :
    IF message.params.t # "array"
    THEN Raise(s, "TypeError: Cannot read properties of undefined (reading 'map')")
    ELSE
    LET args == deserializeRequestData(p, message.params.v)
        localInstance == Instance(portObj[p].localInstance)
        own == hasOwnProperty(localInstance, message.method)
    IN  IF own /\ ~isFunction(localInstance[message.method.v])
        THEN Raise(s, "TypeError: this.localInstance[message.method].bind is not a function")
        ELSE IF ~own /\ ~(message.method.t = "string"
                          /\ message.method.v \in DOMAIN s.callbacks[p])
             THEN Raise(s, "Method not found")
             ELSE invokeLocalMethod(s, p, message.id,
                      IF own THEN localInstance[message.method.v]
                      ELSE s.callbacks[p][message.method.v],
                      args))

\* a settlement that reaches every pending promise
Settle_All(s, actionId, state, value) ==
    [s EXCEPT !.promise = [b \in DOMAIN @ |->
                              IF @[b].state = "pending"
                              THEN [@[b] EXCEPT !.state = state, !.value = value]
                              ELSE @[b]]]

\* Defer.resolve / Defer.reject: a promise settles once
Settle(s, actionId, state, value) ==
    IF s.promise[actionId].state = "pending"
    THEN [s EXCEPT !.promise[actionId].state = state, !.promise[actionId].value = value]
    ELSE s

\* handleMethodReturn settling the call whichever endpoint holds its entry
handleMethodReturn_AnyEndpoint(state, p, message) ==
    Then(state, LAMBDA s :
    LET actionId == message.id.id
        s1 == IF actionId \in DOMAIN s.promise
              THEN IF message.result # Absent
                   THEN Settle(s, actionId, "resolved",
                               deserializeRequestData(p, <<message.result>>)[1])
                   ELSE IF message.error # Absent
                        THEN Settle(s, actionId, "rejected", message.error)
                        ELSE s
              ELSE s
    IN  [s1 EXCEPT !.invocationDefers = [q \in DOMAIN @ |-> @[q] \ {actionId}]])

\* handleMethodReturn keeping the entry and settling over a settled promise
handleMethodReturn_Again(state, p, message) ==
    Then(state, LAMBDA s :
    LET actionId == message.id.id
    IN  IF actionId \in s.invocationDefers[p]
        THEN IF message.result # Absent
             THEN [s EXCEPT !.promise[actionId].state = "resolved",
                            !.promise[actionId].value =
                                deserializeRequestData(p, <<message.result>>)[1]]
             ELSE IF message.error # Absent
                  THEN [s EXCEPT !.promise[actionId].state = "rejected",
                                 !.promise[actionId].value = message.error]
                  ELSE s
        ELSE s)

\* handleMethodReturn deleting the entry on the result branch only
handleMethodReturn_KeepOnError(state, p, message) ==
    Then(state, LAMBDA s :
    LET actionId == message.id.id
    IN  IF actionId \in s.invocationDefers[p]
        THEN IF message.result # Absent
             THEN [Settle(s, actionId, "resolved",
                          deserializeRequestData(p, <<message.result>>)[1])
                      EXCEPT !.invocationDefers[p] = @ \ {actionId}]
             ELSE IF message.error # Absent
                  THEN Settle(s, actionId, "rejected", message.error)
                  ELSE s
        ELSE s)

handleMethodReturn(state, p, message) ==
    Then(state, LAMBDA s :
    \* parseInvocationId(message.id).id, read from the parts the envelope holds
    LET actionId == message.id.id
        s1 == IF actionId \in s.invocationDefers[p]
              THEN IF message.result # Absent
                   THEN Settle(s, actionId, "resolved",
                               deserializeRequestData(p, <<message.result>>)[1])
                   ELSE IF message.error # Absent
                        THEN Settle(s, actionId, "rejected", message.error)
                        ELSE s
              ELSE s
    IN  [s1 EXCEPT !.invocationDefers[p] = @ \ {actionId}])

\* a cleanupLocalCallback that also forgets the pending calls of the port
cleanupLocalCallback_DropPending(s, p, message) ==
    [s EXCEPT !.callbacks[p] = [k \in DOMAIN @ \ {message.callbackId.v} |-> @[k]],
              !.invocationDefers[p] = {}]

\* a cleanupLocalCallback that empties the registry
cleanupLocalCallback_Clear(s, p, message) == [s EXCEPT !.callbacks[p] = << >>]

\* this.callbacks.delete(createSafeId(message.callbackId))
cleanupLocalCallback(s, p, message) ==
    IF "callbackId" \notin DOMAIN message
    THEN Raise(s, "TypeError: Cannot read properties of undefined (reading 'includes')")
    ELSE LET id == createSafeId(message.callbackId.v) IN
         IF id.thrown # ""
         THEN Raise(s, id.thrown)
         ELSE [s EXCEPT !.callbacks[p] =
                          [k \in DOMAIN @ \ {id.value} |-> @[k]]]

\* the cleanup callback of deserializeRequestData: the notice is sent with
\* the callback id as its id
cleanupRemoteCallback(s, p, callbackId) ==
    send(s, portObj[p].ctx,
         Message(Str(callbackId), Str("cleanup-callback"), Num(0),
                 Absent, Absent, Absent, Absent))

PortReceive(s, p, message) ==
    CASE message.action.v = "method-call" ->
            handleMethodCall([s EXCEPT !.callsFor[message.id.id] = @ + 1], p, message)
      [] message.action.v = "method-return" ->
            handleMethodReturn(s, p, message)
      [] message.action.v = "cleanup-callback" ->
            cleanupLocalCallback(s, p, message)
      [] OTHER -> s

\* ---------------------------------------------------------------- WebRPC
\* a receive that hands a message for an unknown endpoint name to the first
\* endpoint constructed
WebRPC_receive_Fallback(s, c, data) ==
    IF ~isRPCMessage(data)
    THEN s
    ELSE IF data.id.t = "null"
         THEN Raise(s, "TypeError: Cannot read properties of null (reading 'clientId')")
         ELSE IF data.id.clientId # clientId[c]
              THEN s
              ELSE IF data.id.portId \in Names /\ ports[c][data.id.portId] # 0
                   THEN PortReceive(s, ports[c][data.id.portId], data)
                   ELSE IF portCount >= 1 THEN PortReceive(s, 1, data) ELSE s

\* a receive that does not compare the participant id
WebRPC_receive_AnyClient(s, c, data) ==
    IF ~isRPCMessage(data)
    THEN s
    ELSE IF data.id.t = "null"
         THEN Raise(s, "TypeError: Cannot read properties of null (reading 'clientId')")
         ELSE IF data.id.portId \in Names /\ ports[c][data.id.portId] # 0
              THEN PortReceive(s, ports[c][data.id.portId], data)
              ELSE s

WebRPC_receive(s, c, data) ==
    IF ~isRPCMessage(data)
    THEN s
    ELSE IF data.id.t = "null"
         THEN Raise(s, "TypeError: Cannot read properties of null (reading 'clientId')")
         ELSE IF data.id.clientId # clientId[c]
              THEN s
              ELSE IF data.id.portId \in Names /\ ports[c][data.id.portId] # 0
                   THEN PortReceive(s, ports[c][data.id.portId], data)
                   ELSE s

\* The promise reactions a settled call releases in context c, in the order
\* the reactions were registered.
ReadyTasks(s, c) ==
    {k \in s.tasks : /\ portObj[k.port].ctx = c
                     /\ k.on \in DOMAIN s.promise
                     /\ s.promise[k.on].state # "pending"}

RECURSIVE runReactions(_, _)
runReactions(state, c) ==
    Then(state, LAMBDA s :
    Then(ReadyTasks(s, c), LAMBDA ready :
    IF ready = {} THEN s
    ELSE Then(CHOOSE k \in ready : \A o \in ready : k.n <= o.n, LAMBDA k :
         LET s1 == [s EXCEPT !.tasks = @ \ {k}]
         IN  runReactions(
                 IF s.promise[k.on].state = "resolved"
                 THEN handleSuccess(s1, k.port, k.id, s.promise[k.on].value)
                 ELSE handleError(s1, k.port, k.id, s.promise[k.on].value),
                 c))))

\* ------------------------------------------------------------- actions
NoPort == [ctx |-> 0, clientId |-> "", portId |-> "", localInstance |-> "empty"]

\* every action id a message can carry: the generated ones and a foreign one
KnownIds == ActionIds \cup {"test-call"}

\* two routers constructed with ids drawn from ids, nothing registered
InitWith(ids) ==
    /\ clientId \in {f \in [Ctx -> ids] : f[1] = "A"}
    /\ ports = [c \in Ctx |-> [id \in Names |-> 0]]
    /\ portObj = [r \in PortRefs |-> NoPort]
    /\ portCount = 0
    /\ held = [c \in Ctx |-> {}]
    /\ callbacks = [r \in PortRefs |-> << >>]
    /\ invocationDefers = [r \in PortRefs |-> {}]
    /\ promise = << >>
    /\ inbox = [c \in Ctx |-> << >>]
    /\ tasks = {}
    /\ actionCount = 0
    /\ funcCount = 0
    /\ taskCount = 0
    /\ ran = {}
    /\ callsFor = [a \in KnownIds |-> 0]
    /\ returnsFor = [a \in KnownIds |-> 0]
    /\ userCalls = 0
    /\ injected = 0
    /\ raised = ""
    /\ finalized = {}
    /\ listening = [c \in Ctx |-> TRUE]
    /\ sendFails = [c \in Ctx |-> FALSE]
    /\ transport = NoTransport

\* codec while the id functions are not exercised
NoCodec == [step |-> "idle", args |-> << >>, invocationId |-> "",
            result |-> Throw("", NoParts)]

\* user code constructs its routers with ids free of '/'
Init == InitWith(ClientIds) /\ codec = NoCodec

\* new WebRPCPort(this.clientId, id, instance, this.transport): the Error its
\* constructor throws ("" when it constructs the port)
NewPortError(c, id) ==
    LET client == createSafeId(clientId[c])
        port   == createSafeId(id)
    IN  IF client.thrown # "" THEN client.thrown ELSE port.thrown

\* a constructor followed by a ports.set that keeps an entry already there
NewPort_KeepFirst(c, id, instance) ==
    /\ portCount < MaxPorts
    /\ portCount' = portCount + 1
    /\ portObj' = [portObj EXCEPT ![portCount + 1] =
                      [ctx |-> c, clientId |-> createSafeId(clientId[c]).value,
                       portId |-> createSafeId(id).value, localInstance |-> instance]]
    /\ ports' = IF ports[c][id] # 0 THEN ports
                ELSE [ports EXCEPT ![c][id] = portCount + 1]

NewPort(c, id, instance) ==
    /\ portCount < MaxPorts
    /\ portCount' = portCount + 1
    /\ portObj' = [portObj EXCEPT ![portCount + 1] =
                      [ctx |-> c, clientId |-> createSafeId(clientId[c]).value,
                       portId |-> createSafeId(id).value, localInstance |-> instance]]
    /\ ports' = [ports EXCEPT ![c][id] = portCount + 1]

\* a register whose new endpoint takes over the pending table of the one it
\* replaces
register_Adopt(c, id, instance) ==
    /\ IF NewPortError(c, id) # ""
       THEN /\ raised' = NewPortError(c, id)
            /\ UNCHANGED <<ports, portObj, portCount, invocationDefers>>
       ELSE /\ NewPort(c, id, instance)
            /\ invocationDefers' =
                   IF ports[c][id] = 0 THEN invocationDefers
                   ELSE [invocationDefers EXCEPT ![portCount + 1] =
                             invocationDefers[ports[c][id]]]
            /\ raised' = ""
    /\ UNCHANGED <<transport, codec, finalized, listening, sendFails, clientId, held, callbacks, promise, inbox, tasks,
                   actionCount, funcCount, taskCount, ran, callsFor, returnsFor,
                   userCalls, injected>>

\* WebRPC.register(id, instance)
register(c, id, instance) ==
    /\ IF NewPortError(c, id) # ""
       THEN /\ raised' = NewPortError(c, id)
            /\ UNCHANGED <<ports, portObj, portCount>>
       ELSE /\ NewPort(c, id, instance)
            /\ raised' = ""
    /\ UNCHANGED <<transport, codec, finalized, listening, sendFails, clientId, held, callbacks, invocationDefers, promise, inbox, tasks,
                   actionCount, funcCount, taskCount, ran, callsFor, returnsFor,
                   userCalls, injected>>

\* a get that constructs a port whether or not the name has one
get_Fresh(c, id) ==
    /\ NewPort(c, id, "empty")
    /\ held' = [held EXCEPT ![c] = @ \cup {portCount + 1}]
    /\ raised' = ""
    /\ UNCHANGED <<transport, codec, finalized, listening, sendFails, clientId, callbacks, invocationDefers, promise, inbox, tasks,
                   actionCount, funcCount, taskCount, ran, callsFor, returnsFor,
                   userCalls, injected>>

\* WebRPC.get(id): user code of c now holds the port's remoteImplementation
get(c, id) ==
    /\ IF ports[c][id] = 0
       THEN IF NewPortError(c, id) # ""
            THEN /\ raised' = NewPortError(c, id)
                 /\ UNCHANGED <<ports, portObj, portCount, held>>
            ELSE /\ NewPort(c, id, "empty")
                 /\ held' = [held EXCEPT ![c] = @ \cup {portCount + 1}]
                 /\ raised' = ""
       ELSE /\ held' = [held EXCEPT ![c] = @ \cup {ports[c][id]}]
            /\ raised' = ""
            /\ UNCHANGED <<ports, portObj, portCount>>
    /\ UNCHANGED <<transport, codec, finalized, listening, sendFails, clientId, callbacks, invocationDefers, promise, inbox, tasks,
                   actionCount, funcCount, taskCount, ran, callsFor, returnsFor,
                   userCalls, injected>>

\* the calls user code makes on a remoteImplementation: property and arguments
CallInputs ==
    { <<"add", <<Num(1), Num(2)>> >>,
      <<"throwError", << >> >>,
      <<"asyncMethod", <<Num(1)>> >>,
      <<"getCallback", << >> >>,
      <<"executeCallback", <<Func("f")>> >>,
      <<"missing", << >> >> }

\* (...args) => this.invokeRemoteMethod(property, args) of port object p
RemoteMethod(p, property) ==
    [t |-> "function", name |-> "remoteMethod", of |-> p, property |-> property]

\* a get trap that answers 'then' like any other string key
remoteImplementation_get_Thenable(p, property) ==
    IF TypeOf(property) = "symbol" THEN Undefined ELSE RemoteMethod(p, property)

\* the get trap of remoteImplementation: the value of proxy[property]
remoteImplementation_get(p, property) ==
    IF TypeOf(property) = "symbol"
    THEN Undefined
    ELSE IF property = Str("then")
         THEN Undefined
         ELSE RemoteMethod(p, property)

\* the function the get trap returned is called with args
invoke(s, method, args) == invokeRemoteMethod(s, method.of, method.property, args)

\* remoteImplementation[property](...args) on port object p
Call(c, p, input) ==
    /\ p \in held[c]
    /\ userCalls + injected < MaxCalls
    /\ userCalls' = userCalls + 1
    /\ isFunction(remoteImplementation_get(p, Str(input[1])))
    /\ \E s \in {invoke(Cur, remoteImplementation_get(p, Str(input[1])), input[2])} :
           /\ Commit(s)
           /\ raised' = s.raised
    /\ UNCHANGED <<transport, codec, finalized, listening, sendFails, clientId, ports, portObj, portCount, held, injected>>

\* user code invokes the callable a call resolved with
InvokeCallback(c, a) ==
    /\ userCalls + injected < MaxCalls
    /\ promise[a].state = "resolved"
    /\ isFunction(promise[a].value)
    /\ "port" \in DOMAIN promise[a].value
    /\ promise[a].value \notin finalized
    /\ portObj[promise[a].value.port].ctx = c
    /\ userCalls' = userCalls + 1
    /\ \E s \in {Apply(Cur, promise[a].value.port, promise[a].value, << >>).s} :
           /\ Commit(s)
           /\ raised' = s.raised
    /\ UNCHANGED <<transport, codec, finalized, listening, sendFails, clientId, ports, portObj, portCount, held, injected>>

\* the transport's onMessage callback of context c runs for one message
Receive(c, data, s) ==
    \E s1 \in {runReactions(WebRPC_receive(s, c, data), c)} :
        /\ Commit(s1)
        /\ raised' = s1.raised

Deliver(c) ==
    /\ listening[c]
    /\ inbox[c] # << >>
    /\ Receive(c, Head(inbox[c]), [Cur EXCEPT !.inbox[c] = Tail(@)])
    /\ UNCHANGED <<transport, codec, finalized, listening, sendFails, clientId, ports, portObj, portCount, held, userCalls, injected>>

\* the timer of an asyncMethod run fires and its promise settles
SettleTimer(k, outcome) ==
    /\ k \in tasks
    /\ k.on = "timer"
    /\ \E s \in {LET s0 == [Cur EXCEPT !.tasks = @ \ {k}]
                  IN  IF outcome = "fulfil"
                      THEN handleSuccess(s0, k.port, k.id, k.value)
                      ELSE handleError(s0, k.port, k.id,
                                       IF outcome = "reject" THEN Err("async failure")
                                       ELSE Str("rejected"))} :
           /\ Commit(s)
           /\ raised' = s.raised
    /\ UNCHANGED <<transport, codec, finalized, listening, sendFails, clientId, ports, portObj, portCount, held, userCalls, injected>>

\* ---- values posted to a router from outside its peer
ForeignId(client, port, action) == InvocationId(client, port, action)

Malformed ==
    { Null, Undefined, Str("invalid"), Num(123),
      \* { invalid: 'object' }
      Message(Absent, Absent, Absent, Absent, Absent, Absent, Absent),
      \* an envelope whose id is null
      Message(Null, Str("method-call"), Num(0), Str("add"), Arr(<< >>), Absent, Absent),
      \* an unrecognised action tag, an action that is no string, no timestamp
      Message(ForeignId("A", "math", "test-call"), Str("bogus"), Num(0),
              Str("add"), Arr(<< >>), Absent, Absent),
      Message(ForeignId("A", "math", "test-call"), Num(1), Num(0),
              Str("add"), Arr(<< >>), Absent, Absent),
      Message(ForeignId("A", "math", "test-call"), Str("method-call"), Absent,
              Str("add"), Arr(<< >>), Absent, Absent) }

ForeignCalls ==
    { CallMethodMessage(ForeignId(cl, po, "test-call"), Str(m), Arr(<< >>)) :
          cl \in ClientIds, po \in {"math", "aux"}, m \in {"throwError", "missing", "version"} }
    \cup
    \* a Call without params
    { Message(ForeignId("A", "math", "test-call"), Str("method-call"), Num(0),
              Str("add"), Absent, Absent, Absent) }

ForeignReturns ==
    { Message(ForeignId("A", "math", a), Str("method-return"), Num(0), Absent, Absent,
              r, e) :
          a \in {"invocation-1", "test-call"},
          r \in {Absent, Num(9)},
          e \in {Absent, ErrorInfo(InternalError, "forged", Undefined)} }

RawData == Malformed \cup ForeignCalls \cup ForeignReturns

\* something other than the peer router posts `data` to the channel of c
Inject(c, data) ==
    /\ userCalls + injected < MaxCalls
    /\ injected' = injected + 1
    /\ inbox' = [inbox EXCEPT ![c] = Append(@, data)]
    /\ raised' = ""
    /\ UNCHANGED <<transport, codec, finalized, listening, sendFails, clientId, ports, portObj, portCount, held, callbacks, invocationDefers,
                   promise, tasks, actionCount, funcCount, taskCount, ran, callsFor,
                   returnsFor, userCalls>>

Next ==
    \/ \E c \in Ctx, id \in PortNames : register(c, id, "service")
    \/ \E c \in Callers, id \in PortNames : get(c, id)
    \/ \E c \in Callers, p \in PortRefs, input \in CallInputs : Call(c, p, input)
    \/ \E c \in Callers, a \in ActionIds : a \in DOMAIN promise /\ InvokeCallback(c, a)
    \/ \E c \in Ctx : Deliver(c)
    \/ \E k \in tasks, outcome \in {"fulfil", "reject", "reject-string"} : SettleTimer(k, outcome)

NextOpen ==
    \/ Next
    \/ \E c \in Ctx, data \in RawData : Inject(c, data)

\* the two routers and whatever else posts to their channel
Spec == Init /\ [][NextOpen]_vars

\* the two routers alone on their channel
Closed == Init /\ [][Next]_vars

\* user code that passes any string as an id: to the WebRPC constructor, to
\* register and to get
NextAnyIds ==
    \/ \E c \in Ctx, id \in Names : register(c, id, "service")
    \/ \E c \in Callers, id \in Names : get(c, id)
    \/ \E c \in Callers, p \in PortRefs, input \in CallInputs : Call(c, p, input)
    \/ \E c \in Callers, a \in ActionIds : a \in DOMAIN promise /\ InvokeCallback(c, a)
    \/ \E c \in Ctx : Deliver(c)
    \/ \E k \in tasks, outcome \in {"fulfil", "reject", "reject-string"} : SettleTimer(k, outcome)

AnyIds == InitWith(RouterIds) /\ codec = NoCodec /\ [][NextAnyIds]_vars

\* ---- property reads on a proxy
\* the keys user code and the runtime read besides method names: `await proxy`
\* reads 'then', coercions and iteration read well-known symbols
OtherKeys == {Str("then"), Sym("Symbol.toPrimitive"), Sym("Symbol.iterator")}

\* remoteImplementation[property] read on port object p, and nothing called
ReadProperty(c, p, property) ==
    /\ p \in held[c]
    /\ userCalls + injected < MaxCalls
    /\ userCalls' = userCalls + 1
    /\ ~isFunction(remoteImplementation_get(p, property))
    /\ raised' = ""
    /\ UNCHANGED <<transport, codec, finalized, listening, sendFails, clientId, ports, portObj, portCount, held, callbacks,
                   invocationDefers, promise, inbox, tasks, actionCount, funcCount,
                   taskCount, ran, callsFor, returnsFor, injected>>

NextReads ==
    \/ \E c \in Ctx, id \in PortNames : register(c, id, "service")
    \/ \E c \in Callers, id \in PortNames : get(c, id)
    \/ \E c \in Callers, p \in PortRefs, input \in CallInputs : Call(c, p, input)
    \/ \E c \in Callers, a \in ActionIds : a \in DOMAIN promise /\ InvokeCallback(c, a)
    \/ \E c \in Ctx : Deliver(c)
    \/ \E k \in tasks, outcome \in {"fulfil", "reject", "reject-string"} : SettleTimer(k, outcome)
    \/ \E c \in Callers, p \in PortRefs, property \in OtherKeys : ReadProperty(c, p, property)

\* the two routers, with user code that reads any key of its proxies
Reads == Init /\ [][NextReads]_vars

\* ---- close
\* a close that tears the endpoints down: every pending call of the router
\* is rejected and forgotten
close_TearDown(c) ==
    /\ listening' = [listening EXCEPT ![c] = FALSE]
    /\ invocationDefers' = [r \in PortRefs |->
                               IF portObj[r].ctx = c THEN {} ELSE invocationDefers[r]]
    /\ promise' = [a \in DOMAIN promise |->
                      IF portObj[promise[a].port].ctx = c /\ promise[a].state = "pending"
                      THEN [promise[a] EXCEPT !.state = "rejected",
                                              !.value = Err("closed")]
                      ELSE promise[a]]
    /\ raised' = ""
    /\ UNCHANGED <<transport, codec, finalized, sendFails, clientId, ports, portObj, portCount, held, callbacks,
                   inbox, tasks, actionCount, funcCount, taskCount, ran, callsFor,
                   returnsFor, userCalls, injected>>

\* WebRPC.close(): this.transport.close() removes the message listener
close(c) ==
    /\ listening' = [listening EXCEPT ![c] = FALSE]
    /\ raised' = ""
    /\ UNCHANGED <<transport, codec, finalized, sendFails, clientId, ports, portObj, portCount, held, callbacks,
                   invocationDefers, promise, inbox, tasks, actionCount, funcCount,
                   taskCount, ran, callsFor, returnsFor, userCalls, injected>>

\* a message event of a context whose transport has no listener: nothing runs
Unheard(c) ==
    /\ ~listening[c]
    /\ inbox[c] # << >>
    /\ inbox' = [inbox EXCEPT ![c] = Tail(@)]
    /\ raised' = ""
    /\ UNCHANGED <<transport, codec, finalized, listening, sendFails, clientId, ports, portObj, portCount, held,
                   callbacks, invocationDefers, promise, tasks, actionCount, funcCount,
                   taskCount, ran, callsFor, returnsFor, userCalls, injected>>

NextClosing ==
    \/ \E c \in Ctx, id \in PortNames : register(c, id, "service")
    \/ \E c \in Callers, id \in PortNames : get(c, id)
    \/ \E c \in Callers, p \in PortRefs, input \in CallInputs : Call(c, p, input)
    \/ \E c \in Callers, a \in ActionIds : a \in DOMAIN promise /\ InvokeCallback(c, a)
    \/ \E c \in Ctx : Deliver(c)
    \/ \E k \in tasks, outcome \in {"fulfil", "reject", "reject-string"} : SettleTimer(k, outcome)
    \/ \E c \in Ctx : close(c)
    \/ \E c \in Ctx : Unheard(c)

\* the two routers, either of which may be closed
Closing == Init /\ [][NextClosing]_vars

\* ---- cleanup of callbacks
\* the callback proxies transform has built and registered with its
\* FinalizationRegistry: the values calls resolved with and the arguments
\* local methods ran with
Proxies ==
    { promise[a].value : a \in {x \in DOMAIN promise :
          /\ promise[x].state = "resolved"
          /\ isFunction(promise[x].value)
          /\ "port" \in DOMAIN promise[x].value} }
    \cup
    UNION { {r.args[i] : i \in {j \in 1..Len(r.args) :
                /\ isFunction(r.args[j])
                /\ "port" \in DOMAIN r.args[j]}} : r \in ran }

\* a proxy was collected, and the FinalizationRegistry calls the cleanup
\* callback with the callback id the proxy was registered under
Finalize(proxy) ==
    /\ proxy \in Proxies
    /\ proxy \notin finalized
    /\ finalized' = finalized \cup {proxy}
    /\ \E s \in {cleanupRemoteCallback(Cur, proxy.port, proxy.id)} :
           /\ Commit(s)
           /\ raised' = s.raised
    /\ UNCHANGED <<transport, codec, listening, sendFails, clientId, ports, portObj, portCount, held, userCalls, injected>>

\* the callback ids cleanup notices name
NoticeIds == FuncIds \cup {"non-existent-callback"}

\* WebRPCPort.receive(message) called with a cleanup notice on port object p
receive(p, callbackId) ==
    /\ p \in 1..portCount
    /\ userCalls + injected < MaxCalls
    /\ injected' = injected + 1
    /\ \E s \in {PortReceive(Cur, p,
                       CleanupCallbackMessage(
                           InvocationId(portObj[p].clientId, portObj[p].portId, callbackId),
                           Str(callbackId)))} :
           /\ Commit(s)
           /\ raised' = s.raised
    /\ UNCHANGED <<transport, codec, finalized, listening, sendFails, clientId, ports, portObj, portCount, held, userCalls>>

NextCleanup ==
    \/ \E c \in Ctx, id \in PortNames : register(c, id, "service")
    \/ \E c \in Callers, id \in PortNames : get(c, id)
    \/ \E c \in Callers, p \in PortRefs, input \in CallInputs : Call(c, p, input)
    \/ \E c \in Callers, a \in ActionIds : a \in DOMAIN promise /\ InvokeCallback(c, a)
    \/ \E c \in Ctx : Deliver(c)
    \/ \E k \in tasks, outcome \in {"fulfil", "reject", "reject-string"} : SettleTimer(k, outcome)
    \/ \E proxy \in Proxies : Finalize(proxy)
    \/ \E p \in PortRefs, callbackId \in NoticeIds : receive(p, callbackId)

\* the two routers, the garbage collector, and cleanup notices handed to
\* the ports
Cleanup == Init /\ [][NextCleanup]_vars

\* ---- serializeRequestData and deserializeRequestData applied to drawn values
Obj(at, properties) == [t |-> "object", at |-> at] @@ properties

\* values of primitives, arrays and plain objects
PlainValues ==
    << Str("string"), Num(123), Bool(TRUE), Bool(FALSE), Null, Undefined,
       Arr(<< >>),
       Arr(<<Num(1), Num(2), Num(3)>>),
       Arr(<<Str("a"), Str("b"), Str("c")>>),
       Arr(<<Bool(TRUE), Bool(FALSE), Null>>),
       Arr(<<Num(1), Num(1), Undefined>>),
       Arr(<<Arr(<<Num(1)>>), Arr(<<Arr(<< >>), Str("a")>>)>>),
       [t |-> "object"],
       [t |-> "object", a |-> Num(1), b |-> Str("string")],
       [t |-> "object", nested |-> [t |-> "object", value |-> Num(42)]],
       [t |-> "object", a |-> Arr(<<Num(1), [t |-> "object", b |-> Null]>>)],
       Arr(<<[t |-> "object", a |-> Num(1)], [t |-> "object", a |-> Num(1)]>>),
       \* const x = { a: 1 }; [x, x] and { a: x, b: x }
       [t |-> "array", at |-> 2,
        v |-> <<Obj(1, [a |-> Num(1)]), Obj(1, [a |-> Num(1)])>>],
       Obj(2, [a |-> Obj(1, [a |-> Num(1)]), b |-> Obj(1, [a |-> Num(1)])]) >>

\* plain objects that look like the tokens of the protocol
TokenLikeValues ==
    << [t |-> "object", flag |-> Str(CALLBACK_FLAG), contextId |-> Str("ctx"),
        id |-> Str("func-9")],
       [t |-> "object", flag |-> Str(CALLBACK_FLAG), id |-> Str("")],
       Arr(<<[t |-> "object", flag |-> Str(CALLBACK_FLAG), id |-> Str("func-9")]>>),
       [t |-> "object",
        a |-> [t |-> "object", flag |-> Str(GETTER_FLAG), contextId |-> Str("ctx"),
               id |-> Str("func-9")]],
       [t |-> "object", flag |-> Str(GETTER_FLAG), id |-> Str("func-9")],
       [t |-> "object", flag |-> Str("other")] >>

\* values with functions, accessors and transferables
LiveValues ==
    << Func("f"),
       Arr(<<Func("f"), Func("f")>>),
       [t |-> "object", callback |-> Func("f"), a |-> Num(1)],
       [t |-> "object", value |-> Accessor(Func("get value"))],
       [t |-> "object", nested |-> [t |-> "object", callback |-> Func("f")]],
       \* { array: [f], object: { method: g } }
       [t |-> "object", a |-> Arr(<<Func("f")>>),
        nested |-> [t |-> "object", callback |-> Func("g")]],
       Arr(<<Func("f"), [t |-> "object", callback |-> Func("g")], Func("g")>>),
       ArrayBuffer(8),
       Arr(<<Uint8Array(ArrayBuffer(8)), Num(1)>>) >>

\* objects that refer to themselves
\* const o = { self: null }; o.self = o, and the like
CircularValues ==
    << Obj(1, [self |-> Ref(1)]),
       Obj(1, [a |-> Num(1), self |-> Ref(1)]),
       Obj(1, [callback |-> Func("f"), self |-> Ref(1)]),
       Obj(1, [nested |-> Obj(2, [self |-> Ref(1)])]),
       Arr(<<Obj(1, [self |-> Ref(1)])>>),
       \* a wire object as the unit test hands it to deserializeRequestData
       Obj(1, [callback |-> [t |-> "object", flag |-> Str(CALLBACK_FLAG),
                             contextId |-> Str("test-context"),
                             id |-> Str("circular-callback")],
               self |-> Ref(1)]) >>

Values == PlainValues \o TokenLikeValues \o LiveValues \o CircularValues

ValueInputs ==
    { [step |-> "drawn", value |-> Values[i], ser |-> << >>, result |-> << >>] :
          i \in 1..Len(Values) }

\* serializeRequestData(contextId, [value])
Serialize ==
    /\ codec.step = "drawn"
    /\ codec' = [codec EXCEPT !.step = "serialized",
                              !.ser = serializeRequestData("ctx", <<codec.value>>, 0)]

\* serializeRequestData(contextId, value) for an array: its items are the
\* argument list
SerializeList ==
    /\ codec.step = "drawn"
    /\ codec.value.t = "array"
    /\ codec' = [codec EXCEPT !.step = "listed",
                              !.ser = serializeRequestData("ctx",
                                          [i \in 1..Len(codec.value.v) |->
                                              Bind(codec.value.v[i], codec.value)], 0)]

\* deserializeRequestData(data, invokeCallback, cleanupCallback) of the
\* serialized data
Deserialize ==
    /\ codec.step = "serialized"
    /\ codec' = [codec EXCEPT !.step = "deserialized",
                              !.result = deserializeRequestData(1, codec.ser.data)]

\* deserializeRequestData([value], invokeCallback, cleanupCallback)
DeserializeOnly ==
    /\ codec.step = "drawn"
    /\ codec' = [codec EXCEPT !.step = "transformed",
                              !.result = deserializeRequestData(1, <<codec.value>>)]

NextRoundTrip ==
    \/ Serialize /\ UNCHANGED <<transport, finalized, listening, sendFails, clientId, ports,
                                 portObj, portCount, held, callbacks,
                                 invocationDefers, promise, inbox, tasks, actionCount,
                                 funcCount, taskCount, ran, callsFor, returnsFor, userCalls,
                                 injected, raised>>
    \/ Deserialize /\ UNCHANGED <<transport, finalized, listening, sendFails, clientId, ports,
                                 portObj, portCount, held, callbacks,
                                   invocationDefers, promise, inbox, tasks, actionCount,
                                   funcCount, taskCount, ran, callsFor, returnsFor, userCalls,
                                   injected, raised>>
    \/ SerializeList /\ UNCHANGED <<transport, finalized, listening, sendFails, clientId, ports,
                                 portObj, portCount, held, callbacks,
                                     invocationDefers, promise, inbox, tasks, actionCount,
                                     funcCount, taskCount, ran, callsFor, returnsFor, userCalls,
                                     injected, raised>>
    \/ DeserializeOnly /\ UNCHANGED <<transport, finalized, listening, sendFails, clientId, ports,
                                 portObj, portCount, held, callbacks,
                                       invocationDefers, promise, inbox, tasks, actionCount,
                                       funcCount, taskCount, ran, callsFor, returnsFor, userCalls,
                                       injected, raised>>

\* the two functions applied to each drawn value
RoundTrip == InitWith(ClientIds) /\ codec \in ValueInputs /\ [][NextRoundTrip]_vars

\* ---- accessor properties
MaxReads == 2

\* the reads of accessor properties made so far: each is a callback call
ReadsMade == Cardinality({a \in DOMAIN promise : promise[a].method.v \in FuncIds})

\* a read that is answered from the first read's promise
ReadAccessor_Cached(c, a, key) ==
    /\ ReadsMade < MaxReads
    /\ promise[a].state = "resolved"
    /\ isPlainObject(promise[a].value)
    /\ key \in DOMAIN promise[a].value
    /\ promise[a].value[key].t = "accessor"
    /\ portObj[promise[a].value[key].get.port].ctx = c
    /\ \E s \in {IF ReadsMade = 0
                  THEN Apply(Cur, promise[a].value[key].get.port,
                             promise[a].value[key].get, << >>).s
                  ELSE [Cur EXCEPT !.actionCount = @ + 1,
                                   !.promise = (uid("invocation-", actionCount + 1) :>
                                       [state |-> "pending", value |-> Undefined,
                                        port |-> promise[a].value[key].get.port,
                                        method |-> Str(promise[a].value[key].get.id),
                                        args |-> << >>]) @@ @]} :
           /\ Commit(s)
           /\ raised' = s.raised
    /\ UNCHANGED <<transport, codec, finalized, listening, sendFails, clientId, ports, portObj, portCount, held, userCalls, injected>>

\* user code of c reads the property `key` of the object call a resolved
\* with, an accessor: its get function runs
ReadAccessor(c, a, key) ==
    /\ ReadsMade < MaxReads
    /\ promise[a].state = "resolved"
    /\ isPlainObject(promise[a].value)
    /\ key \in DOMAIN promise[a].value
    /\ promise[a].value[key].t = "accessor"
    /\ portObj[promise[a].value[key].get.port].ctx = c
    /\ \E s \in {Apply(Cur, promise[a].value[key].get.port,
                        promise[a].value[key].get, << >>).s} :
           /\ Commit(s)
           /\ raised' = s.raised
    /\ UNCHANGED <<transport, codec, finalized, listening, sendFails, clientId, ports, portObj, portCount, held, userCalls, injected>>

GetterInputs == { <<"execute", << >> >> }

NextGetters ==
    \/ \E c \in Ctx, id \in PortNames : register(c, id, "getterTester")
    \/ \E c \in Callers, id \in PortNames : get(c, id)
    \/ \E c \in Callers, p \in PortRefs, input \in GetterInputs : Call(c, p, input)
    \/ \E c \in Callers, a \in ActionIds : a \in DOMAIN promise /\ ReadAccessor(c, a, "value")
    \/ \E c \in Ctx : Deliver(c)

\* the two routers, a method that returns an object with an accessor
\* property, and a channel that delivers every message
Getters ==
    /\ Init
    /\ [][NextGetters]_vars
    /\ \A c \in Ctx : WF_vars(Deliver(c))

\* ---- handlers without a result
\* calls whose callback returns nothing
VoidInputs == { <<"executeCallback", <<Func("resolve")>> >>,
                <<"executeCallback", <<Func("f")>> >>,
                <<"add", <<Num(1), Num(2)>> >>,
                <<"throwError", << >> >> }

NextResults ==
    \/ \E c \in Ctx, id \in PortNames : register(c, id, "service")
    \/ \E c \in Callers, id \in PortNames : get(c, id)
    \/ \E c \in Callers, p \in PortRefs, input \in VoidInputs : Call(c, p, input)
    \/ \E c \in Ctx : Deliver(c)

\* the two routers alone, with callbacks that return undefined
Results == Init /\ [][NextResults]_vars

\* ---- functions and accessors in arguments and results
\* calls whose arguments or results hold functions and accessors
TokenInputs ==
    { <<"executeCallback", <<Func("f")>> >>,
      <<"executeCallback", <<[t |-> "object", callback |-> Func("f"),
                              value |-> Accessor(Func("get value"))]>> >>,
      <<"getCallback", << >> >>,
      <<"execute", << >> >>,
      <<"throwError", << >> >> }

NextTokens ==
    \/ \E c \in Ctx, id \in PortNames, instance \in {"service", "getterTester"} :
           register(c, id, instance)
    \/ \E c \in Callers, id \in PortNames : get(c, id)
    \/ \E c \in Callers, p \in PortRefs, input \in TokenInputs : Call(c, p, input)
    \/ \E c \in Ctx : Deliver(c)

\* the two routers, with calls that pass and return functions and accessors
Tokens == Init /\ [][NextTokens]_vars

\* ---- a transport that delivers inside send
\* A custom sender that hands the message to the peer router's receive
\* before it returns, as the peer's sender does in turn: every message on
\* its way is received before the call of send that started it returns.  An
\* Error raised by a receive leaves through that send.
RECURSIVE Flush(_)
Flush(state) ==
    Then(state, LAMBDA s :
    IF s.raised # "" \/ \A c \in Ctx : s.inbox[c] = << >>
    THEN s
    ELSE Then(CHOOSE c \in Ctx : s.inbox[c] # << >>, LAMBDA c :
              Flush(WebRPC_receive([s EXCEPT !.inbox[c] = Tail(@)], c, Head(s.inbox[c])))))

\* invokeRemoteMethod of port object p on such a transport
invokeRemoteMethodReentrant(s, p, methodName, args) ==
    Then(s, LAMBDA s0 :
    Then(serializeRequestData(portObj[p].portId, args, s0.funcCount), LAMBDA ser :
    Then(CallMethodMessage(
             InvocationId(portObj[p].clientId, portObj[p].portId,
                          uid("invocation-", s0.actionCount + 1)),
             methodName, Arr(ser.data)), LAMBDA req :
    LET actionId == uid("invocation-", s0.actionCount + 1)
        call == [state |-> "pending", value |-> Undefined, port |-> p,
                 method |-> methodName, args |-> args]
        s1 == [s0 EXCEPT !.actionCount = @ + 1,
                         !.funcCount = ser.n,
                         !.callbacks[p] = ser.functions @@ @]
    IN  \* this.transport.send(req): the peer receives the Call and this
        \* router the Return before invocationDefers.set runs
        Then(Flush(send(s1, portObj[p].ctx, req)), LAMBDA s2 :
             IF s2.raised # ""
             THEN \* an async function: the Error rejects the promise it returns
                  [s2 EXCEPT !.raised = "",
                             !.promise = (actionId :> [call EXCEPT !.state = "rejected",
                                                                   !.value = Err(s2.raised)]) @@ @]
             ELSE [s2 EXCEPT !.invocationDefers[p] = @ \cup {actionId},
                             !.promise = (actionId :> call) @@ @]))))

\* calls whose handler answers before it returns
ReentrantInputs ==
    { <<"add", <<Num(1), Num(2)>> >>,
      <<"throwError", << >> >>,
      <<"getCallback", << >> >>,
      <<"missing", << >> >> }

\* remoteImplementation[property](...args) on port object p
CallReentrant(c, p, input) ==
    /\ p \in held[c]
    /\ userCalls + injected < MaxCalls
    /\ userCalls' = userCalls + 1
    /\ isFunction(remoteImplementation_get(p, Str(input[1])))
    /\ \E s \in {invokeRemoteMethodReentrant(Cur, p, Str(input[1]), input[2])} :
           /\ Commit(s)
           /\ raised' = s.raised
    /\ UNCHANGED <<transport, codec, finalized, listening, sendFails, clientId, ports, portObj, portCount, held, injected>>

NextReentrant ==
    \/ \E c \in Ctx, id \in PortNames : register(c, id, "service")
    \/ \E c \in Callers, id \in PortNames : get(c, id)
    \/ \E c \in Callers, p \in PortRefs, input \in ReentrantInputs : CallReentrant(c, p, input)

\* the two routers joined by senders that call the peer's receive
Reentrant == Init /\ [][NextReentrant]_vars

\* ---- PostMessageTransport
\* the transport keeps one remover per onMessage call in its cleanup array;
\* a listener is named by the number of the onMessage call that made it
MaxCallbacks == 2
MaxPosts == 2
MaxRemovals == 3

\* target.removeEventListener('message', listener): no effect, and no
\* exception, when the listener is not on the target
removeEventListener(t, listener) ==
    [t EXCEPT !.listeners = @ \ {listener}]

RECURSIVE runCleanup(_, _)
\* this.cleanup.forEach(cleanup => cleanup()) from position i on
runCleanup(t, i) ==
    IF i > Len(t.cleanup) THEN t
    ELSE runCleanup(removeEventListener(t, t.cleanup[i]), i + 1)

\* a close() that removes the listener of the latest onMessage call only
PostMessageTransport_close_Latest(t) ==
    IF t.cleanup = << >> THEN t
    ELSE [removeEventListener(t, t.cleanup[Len(t.cleanup)]) EXCEPT !.cleanup = << >>]

\* PostMessageTransport.close()
PostMessageTransport_close(t) ==
    [runCleanup(t, 1) EXCEPT !.cleanup = << >>]

\* PostMessageTransport.onMessage(callback): the new listener is added to the
\* target and its remover pushed onto the cleanup array
OnMessage ==
    /\ Len(transport.callbacks) < MaxCallbacks
    /\ LET listener == Len(transport.callbacks) + 1
       IN transport' = [transport EXCEPT
                            !.listeners = @ \cup {listener},
                            !.cleanup = Append(@, listener),
                            !.callbacks = Append(@, transport.closes)]
    /\ raised' = ""

\* the function returned by the listener-th onMessage call is called
Unsubscribe(listener) ==
    /\ transport.calls < MaxRemovals
    /\ listener \in 1..Len(transport.callbacks)
    /\ transport' = [removeEventListener(transport, listener) EXCEPT !.calls = @ + 1]
    /\ raised' = ""

\* transport.close() is called
CloseTransport ==
    /\ transport.calls < MaxRemovals
    /\ transport' = [PostMessageTransport_close(transport) EXCEPT
                         !.calls = @ + 1, !.closes = @ + 1]
    /\ raised' = ""

\* the other end of the channel posts a message
PostMessage ==
    /\ transport.posted < MaxPosts
    /\ transport' = [transport EXCEPT
                         !.posted = @ + 1,
                         !.queue = Append(@, [n |-> transport.posted + 1,
                                              closes |-> transport.closes])]
    /\ raised' = ""

\* the target dispatches the oldest posted message as a MessageEvent: every
\* listener now on the target runs callback(event.data)
DispatchMessage ==
    /\ transport.queue # << >>
    /\ LET message == Head(transport.queue)
       IN transport' = [transport EXCEPT
                            !.queue = Tail(@),
                            !.dispatched = @ \cup {message},
                            !.invoked = @ \cup {[listener |-> l, message |-> message]
                                                  : l \in transport.listeners}]
    /\ raised' = ""

NextPostMessage ==
    /\ \/ OnMessage
       \/ \E listener \in 1..MaxCallbacks : Unsubscribe(listener)
       \/ CloseTransport
       \/ PostMessage
       \/ DispatchMessage
    /\ UNCHANGED <<finalized, listening, sendFails, clientId, ports, portObj, portCount,
                   held, callbacks, invocationDefers, promise, inbox, tasks, actionCount,
                   funcCount, taskCount, ran, callsFor, returnsFor, userCalls, injected,
                   codec>>

\* one PostMessageTransport on a message port, its user and the other end
PostMessagePort == Init /\ [][NextPostMessage]_vars

\* ---- transport failures
\* the transport of context c starts or stops throwing on send
SetTransport(c, fails) ==
    /\ sendFails[c] # fails
    /\ sendFails' = [sendFails EXCEPT ![c] = fails]
    /\ raised' = ""
    /\ UNCHANGED <<transport, codec, finalized, listening, clientId, ports, portObj, portCount, held,
                   callbacks, invocationDefers, promise, inbox, tasks, actionCount,
                   funcCount, taskCount, ran, callsFor, returnsFor, userCalls, injected>>

NextFaulty ==
    \/ \E c \in Ctx, id \in PortNames : register(c, id, "service")
    \/ \E c \in Callers, id \in PortNames : get(c, id)
    \/ \E c \in Callers, p \in PortRefs, input \in CallInputs : Call(c, p, input)
    \/ \E c \in Callers, a \in ActionIds : a \in DOMAIN promise /\ InvokeCallback(c, a)
    \/ \E c \in Ctx : Deliver(c)
    \/ \E k \in tasks, outcome \in {"fulfil", "reject", "reject-string"} : SettleTimer(k, outcome)
    \/ \E proxy \in Proxies : Finalize(proxy)
    \/ \E c \in Ctx, fails \in BOOLEAN : SetTransport(c, fails)

\* the two routers on transports that may throw on send
Faulty == Init /\ [][NextFaulty]_vars

\* ---- every event an endpoint can meet
NextEvents ==
    \/ \E c \in Ctx, id \in PortNames : register(c, id, "service")
    \/ \E c \in Callers, id \in PortNames : get(c, id)
    \/ \E c \in Callers, p \in PortRefs, input \in CallInputs : Call(c, p, input)
    \/ \E c \in Callers, a \in ActionIds : a \in DOMAIN promise /\ InvokeCallback(c, a)
    \/ \E c \in Ctx : Deliver(c)
    \/ \E k \in tasks, outcome \in {"fulfil", "reject", "reject-string"} : SettleTimer(k, outcome)
    \/ \E proxy \in Proxies : Finalize(proxy)
    \/ \E p \in PortRefs, callbackId \in NoticeIds : receive(p, callbackId)
    \/ \E c \in Ctx : close(c)
    \/ \E c \in Ctx : Unheard(c)

\* the two routers with finalization, cleanup notices and close
Events == Init /\ [][NextEvents]_vars

\* ---- createInvocationId and parseInvocationId applied to drawn strings
IdStrings == {"A", "math", "", "test/client", "test/port"}
\* the third argument: the action ids uid generates, and other strings
IdSuffixes == ActionIds \cup {"", "a/b"}
InvocationIdStrings ==
    { "invalid-format", "part1/part2", "part1/part2/part3", "part1/part2/part3/part4",
      "", "//", "a//b", "/" }

CodecInputs ==
    { [step |-> "drawn", args |-> <<p, e, a>>, invocationId |-> "",
       result |-> Throw("", NoParts)] : p \in IdStrings, e \in IdStrings, a \in IdSuffixes }
    \cup
    { [step |-> "created", args |-> << >>, invocationId |-> x,
       result |-> Throw("", NoParts)] : x \in InvocationIdStrings }

\* createInvocationId(createSafeId(clientId), createSafeId(portId), id)
CreateId ==
    /\ codec.step = "drawn"
    /\ createSafeId(codec.args[1]).thrown = ""
    /\ createSafeId(codec.args[2]).thrown = ""
    /\ codec' = [codec EXCEPT !.step = "created",
                              !.invocationId = createInvocationId(
                                  createSafeId(codec.args[1]).value,
                                  createSafeId(codec.args[2]).value, codec.args[3])]

\* parseInvocationId(invocationId)
ParseId ==
    /\ codec.step = "created"
    /\ codec' = [codec EXCEPT !.step = "parsed",
                              !.result = parseInvocationId(codec.invocationId)]

NextCodec ==
    \/ CreateId /\ UNCHANGED <<transport, finalized, listening, sendFails, clientId, ports,
                                 portObj, portCount, held, callbacks,
                                invocationDefers, promise, inbox, tasks, actionCount,
                                funcCount, taskCount, ran, callsFor, returnsFor, userCalls,
                                injected, raised>>
    \/ ParseId /\ UNCHANGED <<transport, finalized, listening, sendFails, clientId, ports,
                                 portObj, portCount, held, callbacks,
                               invocationDefers, promise, inbox, tasks, actionCount,
                               funcCount, taskCount, ran, callsFor, returnsFor, userCalls,
                               injected, raised>>

Codec == InitWith(ClientIds) /\ codec \in CodecInputs /\ [][NextCodec]_vars

\* the channel delivers every message and every timer fires
Live ==
    /\ Closed
    /\ \A c \in Ctx : WF_vars(Deliver(c))
    /\ WF_vars(\E k \in tasks, outcome \in {"fulfil", "reject", "reject-string"} :
                   SettleTimer(k, outcome))

\* ------------------------------------------------------------- claims
\* the call with action id a was issued by user code through a proxy method
IsProxyCall(a) ==
    /\ a \in DOMAIN promise
    /\ promise[a].method.v \notin FuncIds

Settled(a) == a \in DOMAIN promise /\ promise[a].state # "pending"

\* the port object the peer router holds under the name of port object p
PeerPort(p) == ports[Peer(portObj[p].ctx)][portObj[p].portId]

\* router c has constructed at most one endpoint object under the name id:
\* the endpoint it holds under that name has never been replaced
NeverReplaced(c, id) ==
    \A r \in 1..portCount :
        (portObj[r].ctx = c /\ portObj[r].portId = id) => ports[c][id] = r

\* The conditions C1 names for a basic call a: both routers use one
\* participant id, and the callee's router holds an endpoint of the proxy's
\* name whose implementation has the called method as an own function.
C1_Stated(a) ==
    IsProxyCall(a) =>
        LET p == promise[a].port
        IN  /\ clientId[1] = clientId[2]
            /\ PeerPort(p) # 0
            /\ hasOwnProperty(Instance(portObj[PeerPort(p)].localInstance), promise[a].method)
            /\ isFunction(Instance(portObj[PeerPort(p)].localInstance)[promise[a].method.v])

\* ... and each router has held one and the same endpoint under that name
\* all along
C1_Premise(a) ==
    /\ C1_Stated(a)
    /\ IsProxyCall(a) =>
           /\ NeverReplaced(portObj[promise[a].port].ctx, portObj[promise[a].port].portId)
           /\ NeverReplaced(Peer(portObj[promise[a].port].ctx),
                            portObj[promise[a].port].portId)

\* what the methods of the registered implementation return for the
\* arguments of call a (a function result is C7's case)
C1_Value(a) ==
    LET call == promise[a]
    IN  CASE call.method = Str("add") ->
                 /\ call.state # "rejected"
                 /\ call.state = "resolved" => call.value = Num(call.args[1].v + call.args[2].v)
          [] call.method = Str("asyncMethod") ->
                 call.state = "resolved" => call.value = Num(call.args[1].v + 10)
          [] call.method = Str("executeCallback") ->
                 call.state = "resolved" => call.value = Str("xy")
          [] call.method = Str("throwError") ->
                 call.state # "resolved"
          [] OTHER -> TRUE

DeliverStep(c) == inbox[c] # << >> /\ inbox'[c] = Tail(inbox[c])

\* router c hands data to one of its endpoints
Routed(c, data) ==
    /\ isRPCMessage(data)
    /\ data.id.t = "object"
    /\ data.id.clientId = clientId[c]
    /\ data.id.portId \in Names
    /\ ports[c][data.id.portId] # 0

Target(c, data) == ports[c][data.id.portId]

IsCall(data) == data.action = Str("method-call")
IsReturn(data) == data.action = Str("method-return")

\* the handlers of Calls with action id a whose promise has not settled yet
Awaited(a) == {k \in tasks : k.id.id = a}

\* C2: every Call an endpoint has received has been answered with exactly
\* one Return of its action id, or its handler's promise is still pending
\* and has sent none: never a Call without its Return, never two Returns.
C2_OneReturnPerCall ==
    \A a \in KnownIds : callsFor[a] = returnsFor[a] + Cardinality(Awaited(a))

C2_FailingCall ==
    \E a \in ActionIds :
        /\ a \in DOMAIN promise
        /\ promise[a].method = Str("missing")
        /\ callsFor[a] = 1
        /\ returnsFor[a] = 0
        /\ Awaited(a) = {}
        /\ raised = "Method not found"

\* C3: a Return whose action id is in the endpoint's pending table resolves
\* that promise with the deserialized result when it has a result, rejects
\* it with the error descriptor when it has (only) an error, and in either
\* case the entry is removed from the pending table.
C3_ReturnSettlesAndRemoves ==
    [][\A c \in Ctx :
          (/\ DeliverStep(c)
           /\ Routed(c, Head(inbox[c]))
           /\ IsReturn(Head(inbox[c]))
           /\ Head(inbox[c]).id.id \in invocationDefers[Target(c, Head(inbox[c]))])
          => LET data == Head(inbox[c])
                 p == Target(c, data)
                 a == data.id.id
             IN  /\ a \notin invocationDefers'[p]
                 /\ data.result # Absent =>
                        /\ promise'[a].state = "resolved"
                        /\ promise'[a].value = deserializeRequestData(p, <<data.result>>)[1]
                 /\ (data.result = Absent /\ data.error # Absent) =>
                        /\ promise'[a].state = "rejected"
                        /\ promise'[a].value = data.error]_vars

\* a call rejected by a Return with an error, its entry gone
C3_Witness ==
    \E a \in ActionIds :
        /\ a \in DOMAIN promise
        /\ promise[a].state = "rejected"
        /\ promise[a].value = ErrorInfo(InternalError, "Test error", Str("stack"))
        /\ a \notin invocationDefers[promise[a].port]

\* C4: with several calls outstanding, a Return settles the promise of its
\* own action id only: every other call's promise and every other pending
\* entry is as it was, in whatever order the Returns arrive.
C4_ReturnTouchesOnlyItsCall ==
    [][\A c \in Ctx :
          (/\ DeliverStep(c)
           /\ Routed(c, Head(inbox[c]))
           /\ IsReturn(Head(inbox[c])))
          => LET a == Head(inbox[c]).id.id
             IN  /\ \A b \in DOMAIN promise : b # a => promise'[b] = promise[b]
                 /\ DOMAIN promise' = DOMAIN promise
                 /\ \A q \in PortRefs :
                        invocationDefers'[q] \ {a} = invocationDefers[q] \ {a}]_vars

\* the later of two outstanding calls has settled, the earlier is pending
C4_Witness ==
    /\ {"invocation-1", "invocation-2"} \subseteq DOMAIN promise
    /\ promise["invocation-1"].port = promise["invocation-2"].port
    /\ promise["invocation-2"].state = "resolved"
    /\ promise["invocation-1"].state = "pending"
    /\ "invocation-1" \in invocationDefers[promise["invocation-1"].port]
    /\ callsFor["invocation-1"] = 1

\* ---- errors of local methods
\* the function a Call names on endpoint p: an own property of the local
\* implementation, else an entry of the callback registry
Resolves(p, data, fn) ==
    /\ data.params.t = "array"
    /\ data.method.t = "string"
    /\ LET localInstance == Instance(portObj[p].localInstance)
       IN  IF hasOwnProperty(localInstance, data.method)
           THEN localInstance[data.method.v] = fn
           ELSE /\ data.method.v \in DOMAIN callbacks[p]
                /\ callbacks[p][data.method.v] = fn

TestError == ErrorInfo(InternalError, "Test error", Str("stack"))
AsyncFailure == ErrorInfo(InternalError, "async failure", Str("stack"))
RejectedString == ErrorInfo(InternalError, "rejected", Undefined)

\* C5: when a local method throws, or the promise it returned rejects, the
\* step that handles it raises nothing and sends one Return whose error has
\* code -32603 and the message of what was thrown; the caller's promise is
\* never resolved and, once settled, is rejected with that descriptor.
C5_MethodErrors ==
    /\ [][\A c \in Ctx :
             (/\ DeliverStep(c)
              /\ Routed(c, Head(inbox[c]))
              /\ IsCall(Head(inbox[c]))
              /\ Resolves(Target(c, Head(inbox[c])), Head(inbox[c]), Func("throwError")))
             => /\ raised' = ""
                /\ inbox'[Peer(c)] =
                       Append(inbox[Peer(c)], ReturnError(Head(inbox[c]).id, TestError))]_vars
    /\ [][\A k \in tasks :
             (k.on = "timer" /\ k \notin tasks')
             => /\ raised' = ""
                /\ \E m \in {ReturnResult(k.id, k.value), ReturnError(k.id, AsyncFailure),
                              ReturnError(k.id, RejectedString)} :
                       inbox'[Peer(portObj[k.port].ctx)] =
                           Append(inbox[Peer(portObj[k.port].ctx)], m)]_vars
    /\ [](\A a \in ActionIds :
             IsProxyCall(a) =>
                 /\ promise[a].method = Str("throwError") =>
                        /\ promise[a].state # "resolved"
                        /\ promise[a].state = "rejected" => promise[a].value = TestError
                 /\ (promise[a].method = Str("asyncMethod") /\ promise[a].state = "rejected")
                        => promise[a].value \in {AsyncFailure, RejectedString})

\* a call whose method's promise rejected with an Error, rejected in turn
C5_Witness ==
    \E a \in ActionIds :
        /\ IsProxyCall(a)
        /\ promise[a].method = Str("asyncMethod")
        /\ promise[a].state = "rejected"
        /\ promise[a].value = AsyncFailure
        /\ raised = ""

\* ---- functions that cross the channel
\* call a is an invocation of the proxy of a function fn of the other side
IsCallbackCall(a, fn) ==
    /\ a \in DOMAIN promise
    /\ promise[a].method.v \in FuncIds
    /\ \E r \in PortRefs :
           /\ promise[a].method.v \in DOMAIN callbacks[r]
           /\ callbacks[r][promise[a].method.v] = fn

\* the Calls with action id a that are on their way
CallsInFlight(a) ==
    {<<c, i>> \in Ctx \X (1..(2 * ActionPool)) :
        /\ i <= Len(inbox[c])
        /\ isRPCMessage(inbox[c][i])
        /\ IsCall(inbox[c][i])
        /\ inbox[c][i].id.t = "object"
        /\ inbox[c][i].id.id = a}

\* neither router has replaced an endpoint
NoneReplaced == \A c \in Ctx, id \in PortNames : NeverReplaced(c, id)

\* what invoking the proxy of fn comes to: one Call naming fn's generated id
\* with the invocation's arguments, fn run on them where it lives, and the
\* proxy's promise resolved with `value`
CallbackInvocation(a, fn, value) ==
    /\ Cardinality(CallsInFlight(a)) + callsFor[a] = 1
    /\ \A at \in CallsInFlight(a) :
           /\ inbox[at[1]][at[2]].method = promise[a].method
           /\ inbox[at[1]][at[2]].params = Arr(promise[a].args)
    /\ (callsFor[a] = 1 /\ NoneReplaced) =>
           \E run \in ran : /\ run.method = fn
                            /\ run.args = promise[a].args
                            /\ portObj[run.port].ctx = Peer(portObj[promise[a].port].ctx)
    /\ promise[a].state # "rejected"
    /\ promise[a].state = "resolved" => promise[a].value = value

C7_AsStated ==
    \A a \in ActionIds :
        (IsCallbackCall(a, Func("g")) /\ callsFor[a] = 1)
            => \E run \in ran : run.method = Func("g") /\ run.args = promise[a].args

\* C7: a function g returned by a method is in the callee's registry by
\* the time its Return is on the way; the caller's promise resolves to a
\* callable proxy of g; every invocation of that proxy is one Call that
\* runs g on the callee and resolves with g's result - eventually, when no
\* endpoint is replaced and every message is delivered.
C7_CallbackResult ==
    /\ [](\A c \in Ctx : \A i \in 1..Len(inbox[c]) :
             (/\ isRPCMessage(inbox[c][i])
              /\ IsReturn(inbox[c][i])
              /\ isCallback(inbox[c][i].result))
             => \E r \in PortRefs : /\ portObj[r].ctx = Peer(c)
                                    /\ portObj[r].portId = inbox[c][i].result.contextId.v
                                    /\ inbox[c][i].result.id.v \in DOMAIN callbacks[r]
                                    /\ callbacks[r][inbox[c][i].result.id.v] = Func("g"))
    /\ [](\A a \in ActionIds :
             (IsProxyCall(a) /\ promise[a].method = Str("getCallback")
                 /\ promise[a].state = "resolved")
             => \E id \in FuncIds :
                    /\ promise[a].value = CallbackProxy(promise[a].port, id)
                    /\ \E r \in PortRefs : /\ id \in DOMAIN callbacks[r]
                                           /\ callbacks[r][id] = Func("g"))
    /\ [](\A a \in ActionIds :
             IsCallbackCall(a, Func("g")) => CallbackInvocation(a, Func("g"), Num(7)))
    /\ \A a \in ActionIds :
           ([]NoneReplaced) => [](IsCallbackCall(a, Func("g")) => <>Settled(a))

\* an invocation of the proxy the caller's promise resolved to has resolved
\* with g's result
C7_Witness ==
    \E a, b \in ActionIds :
        /\ IsProxyCall(a)
        /\ promise[a].method = Str("getCallback")
        /\ promise[a].state = "resolved"
        /\ IsCallbackCall(b, Func("g"))
        /\ promise[b].method.v = promise[a].value.id
        /\ promise[b].state = "resolved"
        /\ promise[b].value = Num(7)

\* ---- what the routers and endpoints drop
\* the step leaves everything but the channel of c as it was
Discarded(c) ==
    /\ inbox'[Peer(c)] = inbox[Peer(c)]
    /\ UNCHANGED <<transport, codec, finalized, listening, sendFails, clientId, ports, portObj, portCount, held, callbacks, invocationDefers,
                   promise, tasks, actionCount, funcCount, taskCount, ran, callsFor,
                   returnsFor>>

\* the Call names neither an own function of the local implementation of
\* endpoint p nor a key of its callback registry
RoutingMiss(p, data) ==
    /\ data.params.t = "array"
    /\ data.method.t = "string"
    /\ LET localInstance == Instance(portObj[p].localInstance)
       IN  ~(/\ hasOwnProperty(localInstance, data.method)
             /\ isFunction(localInstance[data.method.v]))
    /\ data.method.v \notin DOMAIN callbacks[p]

\* C8: a Call whose method is neither an own function of the local
\* implementation nor a key of the callback registry is dropped: the
\* delivery raises nothing and leaves the registry and the pending table
\* of every endpoint as they were.
C8_RoutingMissIsSilent ==
    [][\A c \in Ctx :
          (/\ DeliverStep(c)
           /\ Routed(c, Head(inbox[c]))
           /\ IsCall(Head(inbox[c]))
           /\ RoutingMiss(Target(c, Head(inbox[c])), Head(inbox[c])))
          => /\ raised' = ""
             /\ callbacks' = callbacks
             /\ invocationDefers' = invocationDefers]_vars

\* an endpoint has raised on a Call posted to it that names no method of it
C8_FailingInput ==
    /\ callsFor["test-call"] = 1
    /\ returnsFor["test-call"] = 0
    /\ raised = "Method not found"

C10_MalformedIsIgnored ==
    [][\A c \in Ctx :
          (DeliverStep(c) /\ Head(inbox[c]) \in Malformed)
          => /\ raised' = ""
             /\ Discarded(c)]_vars

\* the router has raised on an envelope whose id is null
C10_FailingInput ==
    raised = "TypeError: Cannot read properties of null (reading 'clientId')"

\* C11: a well-formed message of the router's own participant id whose
\* endpoint name is not in the router's endpoint map is dropped: no endpoint
\* is created, nothing is sent, nothing is raised, the map is unchanged.
C11_UnknownEndpointIsDropped ==
    [][\A c \in Ctx :
          (/\ DeliverStep(c)
           /\ isRPCMessage(Head(inbox[c]))
           /\ Head(inbox[c]).id.t = "object"
           /\ Head(inbox[c]).id.clientId = clientId[c]
           /\ ~Routed(c, Head(inbox[c])))
          => /\ raised' = ""
             /\ Discarded(c)]_vars

\* the callee router, of the caller's participant id and without any
\* endpoint, has taken the Call from its channel, and nothing came of it
C11_Witness ==
    /\ clientId[1] = clientId[2]
    /\ ports[2]["math"] = 0
    /\ "invocation-1" \in DOMAIN promise
    /\ promise["invocation-1"].state = "pending"
    /\ inbox[2] = << >>
    /\ injected = 0
    /\ callsFor["invocation-1"] = 0
    /\ raised = ""

\* C12: a Return whose action id is not in the pending table of the
\* endpoint that receives it changes nothing and raises nothing: pending
\* tables and registries are as before, no promise settles, nothing is sent.
C12_UnmatchedReturnIsDropped ==
    [][\A c \in Ctx :
          (/\ DeliverStep(c)
           /\ Routed(c, Head(inbox[c]))
           /\ IsReturn(Head(inbox[c]))
           /\ Head(inbox[c]).id.id \notin invocationDefers[Target(c, Head(inbox[c]))])
          => /\ raised' = ""
             /\ Discarded(c)]_vars

\* the one Return of a call has been delivered to the caller's router and
\* the call is pending still: the endpoint that received it had no entry
C12_Witness ==
    /\ "invocation-1" \in DOMAIN promise
    /\ promise["invocation-1"].method = Str("add")
    /\ promise["invocation-1"].state = "pending"
    /\ returnsFor["invocation-1"] = 1
    /\ inbox = [c \in Ctx |-> << >>]
    /\ injected = 0
    /\ raised = ""

\* C13: a settled promise keeps its outcome for good, and a Return whose
\* call has settled already is dropped without any change of state.
C13_SettledAtMostOnce ==
    /\ [][\A a \in DOMAIN promise :
             promise[a].state # "pending" => promise'[a] = promise[a]]_vars
    /\ [][\A c \in Ctx :
             (/\ DeliverStep(c)
              /\ Routed(c, Head(inbox[c]))
              /\ IsReturn(Head(inbox[c]))
              /\ Settled(Head(inbox[c]).id.id))
             => /\ raised' = ""
                /\ Discarded(c)]_vars

\* the call was resolved by a Return posted from outside, and the Return of
\* its method, arriving later, has been taken from the channel
C13_Witness ==
    /\ "invocation-1" \in DOMAIN promise
    /\ promise["invocation-1"].method = Str("add")
    /\ promise["invocation-1"].state = "resolved"
    /\ promise["invocation-1"].value = Num(9)
    /\ returnsFor["invocation-1"] = 1
    /\ inbox = [c \in Ctx |-> << >>]

\* ---- ids

\* the Error createSafeId throws for an id that contains '/'
FormatError(id) == createSafeId(id).thrown
FormatErrors == {FormatError(id) : id \in {x \in Names \cup RouterIds : includes(x, "/")}}

\* C14: no router exists whose participant id contains '/': constructing one
\* with such an id fails.
C14_RouterIdIsValidated == \A c \in Ctx : ~includes(clientId[c], "/")

\* new WebRPC('test/client', transport) has returned a router, and nothing
\* was raised
C14_FailingInput ==
    /\ clientId[2] = "test/client"
    /\ portCount = 0
    /\ raised = ""

\* C15: register and get fail with the format error exactly when the name
\* they are given contains '/'; the failing call adds no endpoint and sends
\* no message, and no endpoint ever has a name that contains '/'.
C15_NameIsValidated ==
    /\ [][raised' \in FormatErrors
            => /\ raised' \in {FormatError(id) : id \in Names}
               /\ UNCHANGED <<ports, portObj, portCount, held, inbox>>]_vars
    /\ [](\A r \in 1..portCount : ~includes(portObj[r].portId, "/"))

\* register('math', ...) on the router constructed with 'test/client' has
\* failed with the format error
C15_FailingInput ==
    /\ clientId[2] = "test/client"
    /\ raised = FormatError("test/client")

\* C16: for ids p and e free of '/' and an action id a that uid generated,
\* parseInvocationId(createInvocationId(p, e, a)) returns {p, e, a}.
C16_RoundTrip ==
    (/\ codec.step = "parsed"
     /\ codec.args # << >>
     /\ ~includes(codec.args[1], "/")
     /\ ~includes(codec.args[2], "/")
     /\ codec.args[3] \in ActionIds)
    => codec.result = Return([clientId |-> codec.args[1], portId |-> codec.args[2],
                              id |-> codec.args[3]])

\* 'A/math/invocation-1' was created and parsed back
C16_Witness ==
    /\ codec.step = "parsed"
    /\ codec.args = <<"A", "math", "invocation-1">>
    /\ codec.invocationId = "A/math/invocation-1"
    /\ codec.result.thrown = ""
    /\ codec.result.value.id = "invocation-1"

\* the '/' characters of a string
Slashes(s) == {i \in 1..Len(s) : SubSeq(s, i, i) = "/"}

\* C17: parseInvocationId throws 'Invalid InvocationId format' for every
\* string that has not exactly two '/' (three parts), and returns the three
\* parts of every string that has.
C17_StrictFormat ==
    codec.step = "parsed"
    => IF Cardinality(Slashes(codec.invocationId)) = 2
       THEN /\ codec.result.thrown = ""
            /\ createInvocationId(codec.result.value.clientId, codec.result.value.portId,
                                  codec.result.value.id) = codec.invocationId
       ELSE codec.result = Throw("Invalid InvocationId format: " \o codec.invocationId,
                                 NoParts)

\* a string of four parts was rejected
C17_Witness ==
    /\ codec.step = "parsed"
    /\ codec.invocationId = "part1/part2/part3/part4"
    /\ codec.result.thrown = "Invalid InvocationId format: part1/part2/part3/part4"

\* ---- cleanup

\* a registry without the entry of id
Without(registry, id) == [k \in DOMAIN registry \ {id} |-> registry[k]]

\* a cleanup notice for port object p that names callback id
NoticeFor(p, id) ==
    CleanupCallbackMessage(InvocationId(portObj[p].clientId, portObj[p].portId, id), Str(id))

IsCleanup(data) == isPlainObject(data) /\ data.action = Str("cleanup-callback")

\* C19: the delivery of the cleanup notice an endpoint sent for remote
\* function id X leaves no endpoint of the receiving router with an entry X.
C19_NoticeReachesOrigin ==
    [][\A c \in Ctx :
          (DeliverStep(c) /\ IsCleanup(Head(inbox[c])))
          => \A r \in 1..portCount :
                 portObj[r].ctx = c => Head(inbox[c]).id.v \notin DOMAIN callbacks'[r]]_vars

\* the proxy a call resolved with was collected, its notice was sent and
\* delivered, and the origin endpoint still holds the entry
C19_FailingInput ==
    /\ \E proxy \in finalized :
           \E r \in 1..portCount :
               /\ portObj[r].ctx = Peer(portObj[proxy.port].ctx)
               /\ portObj[r].portId = portObj[proxy.port].portId
               /\ proxy.id \in DOMAIN callbacks[r]
    /\ inbox = [c \in Ctx |-> << >>]
    /\ raised = ""

\* ---- the proxy of get(name)

\* the Call that proxy[key](...args) on port object p sends in this state
CallOf(p, key, args) ==
    CallMethodMessage(
        InvocationId(portObj[p].clientId, portObj[p].portId, uid("invocation-", actionCount + 1)),
        key, Arr(serializeRequestData(portObj[p].portId, args, funcCount).data))

\* C20: on every proxy user code holds, 'then' and symbol keys read as
\* undefined, every other string key reads as a function, and calling that
\* function with args sends one message, to the peer: the Call with method
\* = key and params = the serialized args; a read of 'then' or of a symbol
\* key sends nothing.
C20_ProxyForwardsCalls ==
    /\ [](\A c \in Callers : \A p \in held[c] :
             /\ \A property \in OtherKeys : remoteImplementation_get(p, property) = Undefined
             /\ \A input \in CallInputs :
                    /\ isFunction(remoteImplementation_get(p, Str(input[1])))
                    /\ invoke(Cur, remoteImplementation_get(p, Str(input[1])), input[2]).inbox
                           = [inbox EXCEPT ![Peer(c)] =
                                 Append(@, CallOf(p, Str(input[1]), input[2]))])
    /\ [][(userCalls' # userCalls /\ actionCount' = actionCount)
            => inbox' = inbox /\ raised' = ""]_vars

\* user code has read proxy.then and has called proxy.executeCallback(f):
\* one message was sent, the Call of executeCallback with the token of f
C20_Witness ==
    /\ userCalls = 2
    /\ actionCount = 1
    /\ inbox[1] = << >>
    /\ inbox[2] = << CallMethodMessage(InvocationId("A", "math", "invocation-1"),
                                       Str("executeCallback"),
                                       Arr(<< [t |-> "object", flag |-> Str(CALLBACK_FLAG),
                                               contextId |-> Str("math"),
                                               id |-> Str("func-1")] >>)) >>

\* ---- the endpoint map

\* C21: a step in which user code of c obtains a proxy either finds an
\* endpoint under the name and then returns its proxy and leaves the map,
\* the port objects, the registries and the pending tables as they are, or
\* finds none and then constructs one endpoint with an empty local
\* implementation and stores it under the name.
C21_GetCreatesOnlyWhenAbsent ==
    [][\A c \in Callers :
          held'[c] # held[c]
          => \E id \in PortNames :
                 IF ports[c][id] # 0
                 THEN /\ held'[c] = held[c] \cup {ports[c][id]}
                      /\ UNCHANGED <<ports, portObj, portCount, callbacks, invocationDefers>>
                 ELSE /\ portCount' = portCount + 1
                      /\ held'[c] = held[c] \cup {portCount'}
                      /\ ports' = [ports EXCEPT ![c][id] = portCount']
                      /\ portObj' = [portObj EXCEPT ![portCount'] =
                                         [ctx |-> c, clientId |-> clientId[c], portId |-> id,
                                          localInstance |-> "empty"]]
                      /\ Instance(portObj'[portCount'].localInstance) = << >>
                      /\ UNCHANGED <<callbacks, invocationDefers>>]_vars

\* get('math') on the router that registered 'math' twice has returned the
\* proxy of the second endpoint, and has constructed none
C21_Witness ==
    /\ portCount = 2
    /\ ports[1]["math"] = 2
    /\ held[1] = {2}
    /\ portObj[2].localInstance = "service"

\* the port objects router c has constructed under the name id
Constructed(c, id) == {r \in 1..portCount : portObj[r].ctx = c /\ portObj[r].portId = id}

\* the port object of the last register(id, ...) or get(id) of router c
Latest(c, id) ==
    IF Constructed(c, id) = {} THEN 0
    ELSE CHOOSE r \in Constructed(c, id) : \A q \in Constructed(c, id) : q <= r

\* C22: the map binds every name to the endpoint constructed last under it,
\* and a Call addressed to a name runs functions on that endpoint only:
\* never on an endpoint registered under the name before.
C22_RegisterReplaces ==
    /\ [](\A c \in Ctx, id \in PortNames : ports[c][id] = Latest(c, id))
    /\ [][\A c \in Ctx :
             (/\ DeliverStep(c)
              /\ Routed(c, Head(inbox[c]))
              /\ IsCall(Head(inbox[c])))
             => \A run \in ran' \ ran :
                    run.port = Latest(c, Head(inbox[c]).id.portId)]_vars

\* router 2 registered 'math' twice, and a Call for 'math' has run add on
\* the second endpoint
C22_Witness ==
    /\ Constructed(2, "math") = {1, 2}
    /\ \E run \in ran : run.port = 2 /\ run.method = Func("add")
    /\ \A run \in ran : run.port # 1

\* ---- close

\* C23: a step that closes a router removes the listener of its transport
\* and changes nothing else: the endpoint map, the port objects, every
\* registry, every pending table, every promise and the channel stay.
C23_CloseOnlyClosesTransport ==
    [][listening' # listening
          => /\ \E c \in Ctx : listening' = [listening EXCEPT ![c] = FALSE]
             /\ raised' = ""
             /\ UNCHANGED <<ports, portObj, portCount, held, callbacks, invocationDefers,
                            promise, inbox, tasks>>]_vars

\* the caller's router was closed while its call was pending: the call is
\* still pending and still has its entry
C23_Witness ==
    /\ ~listening[1]
    /\ "invocation-1" \in DOMAIN promise
    /\ promise["invocation-1"].state = "pending"
    /\ "invocation-1" \in invocationDefers[promise["invocation-1"].port]
    /\ \E r \in 1..portCount : callbacks[r] # << >>

\* ---- pending calls

\* this step is port object p receiving a Return whose action segment is a
ReturnArrives(p, a) ==
    \E c \in Ctx :
        /\ listening[c]
        /\ DeliverStep(c)
        /\ Routed(c, Head(inbox[c]))
        /\ IsReturn(Head(inbox[c]))
        /\ Target(c, Head(inbox[c])) = p
        /\ Head(inbox[c]).id.id = a

\* C24: the entry of action id a leaves the pending table of port object p
\* only in a step in which p receives a Return for a, and the promise of a
\* settles only in such a step of the port that made the call; no other
\* step (another Return, a Call, a cleanup notice, finalization, close, a
\* timer) does either.
C24_OnlyItsReturnSettles ==
    /\ [][\A p \in PortRefs : \A a \in invocationDefers[p] :
             a \notin invocationDefers'[p] => ReturnArrives(p, a)]_vars
    /\ [][\A a \in DOMAIN promise :
             (promise[a].state = "pending" /\ promise'[a].state # "pending")
             => ReturnArrives(promise[a].port, a)]_vars

\* of two calls the first has settled with its Return; the caller's router
\* was closed, the Return of the second went unheard, and the second call
\* is pending with its entry
C24_Witness ==
    /\ {"invocation-1", "invocation-2"} \subseteq DOMAIN promise
    /\ promise["invocation-1"].state = "resolved"
    /\ promise["invocation-2"].state = "pending"
    /\ promise["invocation-2"].port = promise["invocation-1"].port
    /\ invocationDefers[promise["invocation-2"].port] = {"invocation-2"}
    /\ returnsFor["invocation-2"] = 1
    /\ ~listening[1]
    /\ inbox = [c \in Ctx |-> << >>]

\* C25: when the sender's transport throws on send, the step of the operation
\* that triggered the send (a proxy method or callback-proxy invocation by
\* user code, a cleanup notification) ends with that Error raised, and no
\* message is sent for it.
SendTriggered ==
    \/ userCalls' = userCalls + 1 /\ sendFails[1]
    \/ \E proxy \in Proxies : /\ proxy \notin finalized
                               /\ finalized' = finalized \cup {proxy}
                               /\ sendFails[portObj[proxy.port].ctx]

C25_SendFailureIsRaised ==
    [][SendTriggered => raised' = "Transport error" /\ inbox' = inbox]_vars

\* proxy.add(1, 2) on a transport whose send throws: nothing is raised, the
\* promise the call returned is rejected with the transport's Error
C25_FailingInput ==
    /\ sendFails[1]
    /\ userCalls = 1
    /\ "invocation-1" \in DOMAIN promise
    /\ promise["invocation-1"].state = "rejected"
    /\ promise["invocation-1"].value = Err("Transport error")
    /\ promise["invocation-1"].method = Str("add")
    /\ raised = ""
    /\ inbox = [c \in Ctx |-> << >>]

\* C26: every Return message an endpoint has sent carries exactly one of the
\* properties result and error, also when the result is undefined.
C26_ReturnHasExactlyOne ==
    \A c \in Ctx : \A i \in 1..Len(inbox[c]) :
        inbox[c][i].action = Str("method-return")
            => (inbox[c][i].result # Absent) # (inbox[c][i].error # Absent)

\* the Return of a callback that returned undefined, and the Return of a
\* handler that threw, in flight
C26_Witness ==
    /\ \E c \in Ctx : \E i \in 1..Len(inbox[c]) :
            /\ inbox[c][i].action = Str("method-return")
            /\ inbox[c][i].result = Undefined
            /\ inbox[c][i].error = Absent
    /\ \E c \in Ctx : \E i \in 1..Len(inbox[c]) :
            /\ inbox[c][i].action = Str("method-return")
            /\ inbox[c][i].result = Absent
            /\ inbox[c][i].error # Absent

\* ---- accessor properties that cross the channel
\* call a is a read of the accessor a getter of the other side became
IsGetterRead(a) == IsCallbackCall(a, Func("get value"))

Resolved(a) == a \in DOMAIN promise /\ promise[a].state = "resolved"

HandlerWaits(a) == \E k \in tasks : k.id.id = a /\ k.on \in ActionIds

ReturnSent(a) == returnsFor[a] >= 1

\* the calls of executeCallback made through a proxy
NestingCalls == {a \in ActionIds : IsProxyCall(a) /\ promise[a].method = Str("executeCallback")}

\* the callback calls their handlers made
NestedCalls == {b \in ActionIds : IsCallbackCall(b, Func("f"))}

RECURSIVE PlainData(_)
PlainData(v) ==
    CASE v.t \in {"string", "number", "boolean", "null", "undefined"} -> TRUE
      [] v.t = "array" -> \A i \in 1..Len(v.v) : PlainData(v.v[i])
      [] v.t = "object" /\ isPlainObject(v) ->
             \A key \in DOMAIN v \ {"t", "at"} : PlainData(v[key])
      [] OTHER -> FALSE

\* what toEqual compares: the value without the identities of its objects
RECURSIVE Strip(_)
Strip(v) ==
    CASE v.t = "array" -> Arr([i \in 1..Len(v.v) |-> Strip(v.v[i])])
      [] v.t = "object" /\ isPlainObject(v) ->
             [key \in DOMAIN v \ {"at"} |-> IF key = "t" THEN v.t ELSE Strip(v[key])]
      [] OTHER -> v

\* v holds an object that transform takes for a token: one with the callback
\* flag where transform is applied, or one with the getter flag as the value
\* of a property
RECURSIVE TakenForToken(_)
TakenForToken(v) ==
    \/ isCallback(v)
    \/ /\ v.t = "array"
       /\ \E i \in 1..Len(v.v) : TakenForToken(v.v[i])
    \/ /\ v.t = "object" /\ isPlainObject(v)
       /\ \E key \in DOMAIN v \ {"t", "at"} : isGetter(v[key]) \/ TakenForToken(v[key])

\* v holds a function or an accessor made by transform: the only callers of
\* invokeCallback
RECURSIVE CallsInvoker(_)
CallsInvoker(v) ==
    CASE v.t = "function" -> "port" \in DOMAIN v
      [] v.t = "accessor" -> CallsInvoker(v.get)
      [] v.t = "array" -> \E i \in 1..Len(v.v) : CallsInvoker(v.v[i])
      [] v.t = "object" /\ isPlainObject(v) ->
             \E key \in DOMAIN v \ {"t", "at"} : CallsInvoker(v[key])
      [] OTHER -> FALSE

RoundTripIsEqual ==
    /\ Strip(codec.result[1]) = Strip(codec.value)
    /\ codec.ser.functions = << >>
    /\ codec.ser.transferables = {}
    /\ ~CallsInvoker(codec.result[1])

\* C29 as stated: for every acyclic value of primitives, arrays and plain
\* objects without functions and accessors, deserializing the serialized value
\* gives a structurally equal value, the function map and the transferable set
\* are empty and nothing that calls the callback invoker is made
C29_AsStated ==
    (codec.step = "deserialized" /\ PlainData(codec.value)) => RoundTripIsEqual

\* C29: the same, for the values in which no object carries the callback flag
\* and no property value carries the getter flag
C29_RoundTrip ==
    (codec.step = "deserialized" /\ PlainData(codec.value)
        /\ ~TakenForToken(codec.value)) => RoundTripIsEqual

C29_Witness ==
    /\ codec.step = "deserialized"
    /\ codec.value = [t |-> "object", a |-> Arr(<<Num(1), [t |-> "object", b |-> Null]>>)]
    /\ codec.ser.data = <<codec.value>>
    /\ codec.result = <<codec.value>>

\* ---- the round trip of an object that refers to itself
\* const o = { ..., self: null }; o.self = o
SelfReferencing(v) ==
    /\ v.t = "object"
    /\ "at" \in DOMAIN v
    /\ "self" \in DOMAIN v
    /\ v.self = Ref(v.at)

\* object.self === object
SelfIsItself(object) ==
    /\ "self" \in DOMAIN object
    /\ Identity(Bind(object.self, object)) = Identity(object)

\* C30: serializing and then deserializing an object that refers to itself
\* ends, and the self property of the object made is the object made
C30_SelfReferenceKept ==
    (codec.step = "deserialized" /\ SelfReferencing(codec.value))
        => SelfIsItself(codec.result[1])

\* const o = { self: null }; o.self = o: the object made holds a second object
\* in self, and that one refers to itself
C30_FailingInput ==
    /\ codec.step = "deserialized"
    /\ codec.value = Obj(1, [self |-> Ref(1)])
    /\ codec.ser.data[1].self = codec.value
    /\ ~SelfIsItself(codec.result[1])
    /\ SelfIsItself(codec.result[1].self)

\* ---- tokens and the registry
\* the messages sent to context d in this step
NewMessages(d) ==
    IF Len(inbox'[d]) > Len(inbox[d])
    THEN {inbox'[d][i] : i \in (Len(inbox[d]) + 1)..Len(inbox'[d])}
    ELSE {}

\* v holds a callback token or a getter token
RECURSIVE HasToken(_)
HasToken(v) ==
    \/ isCallback(v)
    \/ isGetter(v)
    \/ /\ v.t = "array"
       /\ \E i \in 1..Len(v.v) : HasToken(v.v[i])
    \/ /\ v.t = "object" /\ isPlainObject(v)
       /\ \E key \in DOMAIN v \ {"t", "at"} : HasToken(v[key])

\* the token's id is a key of the registry, mapped to func
Registered(token, func, registry) ==
    /\ token.id.v \in DOMAIN registry
    /\ registry[token.id.v] = func

\* every token of `serialized` is registered for the function or accessor
\* that `original` holds in its place
RECURSIVE TokensStandFor(_, _, _)
TokensStandFor(original, serialized, registry) ==
    IF isCallback(serialized)
    THEN original.t = "function" /\ Registered(serialized, original, registry)
    ELSE IF isGetter(serialized)
    THEN original.t = "accessor" /\ Registered(serialized, original.get, registry)
    ELSE IF serialized.t = "array"
    THEN /\ original.t = "array"
         /\ \A i \in 1..Len(serialized.v) :
                TokensStandFor(Bind(original.v[i], original), serialized.v[i], registry)
    ELSE IF serialized.t = "object" /\ isPlainObject(serialized)
    THEN \A key \in DOMAIN serialized \ {"t", "at"} :
             TokensStandFor(Bind(original[key], original), serialized[key], registry)
    ELSE TRUE

\* the port object of context c that the Call of action a is dispatched to
Callee(c, message) == ports[c][message.id.portId]

\* what the method of the Call that `message` answers returned in c
HandlerResult(c, message) ==
    LET q == Callee(c, message)
        call == promise[message.id.id]
        localInstance == Instance(portObj[q].localInstance)
        method == IF hasOwnProperty(localInstance, call.method)
                  THEN localInstance[call.method.v]
                  ELSE callbacks'[q][call.method.v]
    IN  Apply(Cur, q, method, call.args).value

\* the Call or Return `message` that context c sent in this step holds only
\* tokens registered with the endpoint that sent it
TokensOf(c, message) ==
    IF message.action = Str("method-call")
    THEN TokensStandFor(Arr(promise'[message.id.id].args), message.params,
                        callbacks'[promise'[message.id.id].port])
    ELSE IF message.result # Absent /\ HasToken(message.result)
         THEN TokensStandFor(HandlerResult(c, message), message.result,
                             callbacks'[Callee(c, message)])
         ELSE TRUE

IsErrorReturn(message) ==
    message.action = Str("method-return") /\ message.error # Absent

\* C31: every callback or getter token in a Call or Return an endpoint sends
\* has an id that is a key of that endpoint's registry, mapped to the
\* function the token stands for; a step that sends only Returns with an
\* error adds no registry entry
C31_TokensAreRegistered ==
    [][\A d \in Ctx :
          /\ \A message \in NewMessages(d) : TokensOf(Peer(d), message)
          /\ (NewMessages(d) # {} /\ \A message \in NewMessages(d) : IsErrorReturn(message))
                 => callbacks' = callbacks]_vars

C31_Witness ==
    \E p, q \in 1..portCount, i \in 1..Len(inbox[2]), j \in 1..Len(inbox[1]) :
        /\ portObj[p].ctx = 1
        /\ portObj[q].ctx = 2
        /\ inbox[2][i].action = Str("method-call")
        /\ inbox[2][i].params.v # << >>
        /\ isPlainObject(inbox[2][i].params.v[1])
        /\ "callback" \in DOMAIN inbox[2][i].params.v[1]
        /\ isCallback(inbox[2][i].params.v[1].callback)
        /\ Registered(inbox[2][i].params.v[1].callback, Func("f"), callbacks[p])
        /\ isGetter(inbox[2][i].params.v[1].value)
        /\ Registered(inbox[2][i].params.v[1].value, Func("get value"), callbacks[p])
        /\ inbox[1][j].action = Str("method-return")
        /\ isPlainObject(inbox[1][j].result)
        /\ "value" \in DOMAIN inbox[1][j].result
        /\ isGetter(inbox[1][j].result.value)
        /\ Registered(inbox[1][j].result.value, Func("get value"), callbacks[q])

\* ---- a Return received before send returns
\* the Return of call a was sent
Answered(a) == a \in DOMAIN returnsFor /\ returnsFor[a] >= 1

\* C32: a call whose Return came back to the calling router before send
\* returned is settled, and no entry for it remains in the pending table
C32_SettlesWhenReentrant ==
    \A a \in DOMAIN promise :
        (Answered(a) /\ \A c \in Ctx : inbox[c] = << >>)
            => /\ promise[a].state # "pending"
               /\ \A p \in PortRefs : a \notin invocationDefers[p]

\* rpc.get('math').add(1, 2) over such senders: the Return was handled, the
\* promise is pending and its entry stays in the table
C32_FailingInput ==
    \E a \in DOMAIN promise :
        /\ promise[a].method = Str("add")
        /\ Answered(a)
        /\ callsFor[a] = 1
        /\ \A c \in Ctx : inbox[c] = << >>
        /\ promise[a].state = "pending"
        /\ a \in invocationDefers[promise[a].port]
        /\ \E r \in ran : r.method = Func("add")

\* ---- entries removed from the pending table
\* C33: a call whose entry was recorded in the pending table and is no
\* longer there has a settled promise, whatever result and error properties
\* the Returns carry
C33_RemovedMeansSettled ==
    \A a \in DOMAIN promise :
        a \notin invocationDefers[promise[a].port] => promise[a].state # "pending"

\* a Return with neither a result nor an error property reached the endpoint
\* of a pending call: { id, _webrpc: { action: 'method-return', timestamp } }
C33_FailingInput ==
    \E a \in DOMAIN promise :
        /\ a \notin invocationDefers[promise[a].port]
        /\ promise[a].state = "pending"
        /\ injected = 1
        /\ returnsFor[a] = 0
        /\ inbox[portObj[promise[a].port].ctx] = << >>

\* ---- functions in the output of serializeRequestData
\* v holds no function at any depth reachable through arrays and plain
\* objects
RECURSIVE NoLiveFunction(_)
NoLiveFunction(v) ==
    CASE v.t = "function" -> FALSE
      [] v.t = "accessor" -> FALSE
      [] v.t = "array" -> \A i \in 1..Len(v.v) : NoLiveFunction(v.v[i])
      [] v.t = "object" /\ isPlainObject(v) ->
             \A key \in DOMAIN v \ {"t", "at"} : NoLiveFunction(v[key])
      [] OTHER -> TRUE

\* C34: the output of serializeRequestData holds no live function at any
\* depth: every position of the input that holds a function holds a callback
\* token whose id maps to that function in the function map
C34_NoLiveFunction ==
    codec.step = "serialized"
        => /\ NoLiveFunction(codec.ser.data[1])
           /\ TokensStandFor(codec.value, codec.ser.data[1], codec.ser.functions)

\* { array: [f], object: { method: g } }: the output holds f and g
\* themselves and the function map is empty
C34_FailingInput ==
    /\ codec.step = "serialized"
    /\ codec.value = [t |-> "object", a |-> Arr(<<Func("f")>>),
                      nested |-> [t |-> "object", callback |-> Func("g")]]
    /\ codec.ser.data[1].a = Arr(<<Func("f")>>)
    /\ codec.ser.data[1].nested.callback = Func("g")
    /\ codec.ser.functions = << >>

\* ---- values that occur twice in one argument list
\* a function or an object with an identity of its own
Revisitable(v) ==
    \/ v.t = "function"
    \/ v.t = "object" /\ isPlainObject(v) /\ "at" \in DOMAIN v

\* the arguments as serializeRequestData received them
Arguments == [i \in 1..Len(codec.value.v) |-> Bind(codec.value.v[i], codec.value)]

\* C35: when the same function or plain object occurs at two positions of
\* one argument list, the output holds at the later position what it holds
\* at the earlier one (the token or the transformed copy), and not the
\* original value
C35_RevisitGivesPlaceholder ==
    codec.step = "listed"
        => \A i, j \in 1..Len(Arguments) :
               (i < j /\ Revisitable(Arguments[i])
                      /\ Identity(Arguments[j]) = Identity(Arguments[i]))
                   => /\ Identity(codec.ser.data[j]) = Identity(codec.ser.data[i])
                      /\ Identity(codec.ser.data[j]) # Identity(Arguments[j])

\* serializeRequestData('ctx', [f, f]): a token, then f itself
C35_FailingInput ==
    /\ codec.step = "listed"
    /\ codec.value = Arr(<<Func("f"), Func("f")>>)
    /\ isCallback(codec.ser.data[1])
    /\ codec.ser.data[2] = Func("f")
    /\ DOMAIN codec.ser.functions = {"func-1"}

\* ---- the life of a registry entry
\* C36: an entry leaves a registry only in the step in which its endpoint
\* receives a cleanup notice naming its id; no other step (a call, the
\* delivery of a Call or a Return, a settlement, a run of the registered
\* function, finalization, close) removes or replaces an entry
C36_OnlyCleanupRemoves ==
    [][\A p \in PortRefs : \A id \in DOMAIN callbacks[p] :
          (id \notin DOMAIN callbacks'[p] \/ callbacks'[p][id] # callbacks[p][id])
              => /\ injected' # injected
                 /\ callbacks' = [callbacks EXCEPT ![p] = Without(@, id)]]_vars

\* executeCallback(f): f was registered as func-1, the peer invoked it, both
\* Returns were handled and the call has resolved; func-1 is still registered
C36_Witness ==
    \E a \in DOMAIN promise :
        /\ promise[a].method = Str("executeCallback")
        /\ promise[a].state = "resolved"
        /\ \E r \in ran : r.method = Func("f") /\ r.port = promise[a].port
        /\ callbacks[promise[a].port] = ("func-1" :> Func("f"))
        /\ \A b \in DOMAIN promise : promise[b].state # "pending"
        /\ inbox = [c \in Ctx |-> << >>]

\* ---- a proxy whose endpoint was replaced
\* the endpoint that made call a is not the one its router holds under its
\* name
Stale(a) ==
    ports[portObj[promise[a].port].ctx][portObj[promise[a].port].portId] # promise[a].port

\* C37: once register(name, impl) has run on a router after get(name), the
\* endpoint behind the proxy is not in the router's endpoint map; every
\* Return that then arrives for a call made through the proxy, before or
\* after the register, is handed to the endpoint in the map, which has no
\* entry for it: nothing changes and nothing is sent, and the promise of such
\* a call stays pending in every step
C37_ReplacedProxyNeverSettles ==
    /\ [](\A c \in Ctx : \A p \in held[c] :
             (\E r \in 1..portCount :
                  r > p /\ portObj[r].ctx = c /\ portObj[r].portId = portObj[p].portId)
                 => ports[c][portObj[p].portId] \notin {0, p})
    /\ [][\A a \in DOMAIN promise :
             (Stale(a) /\ promise[a].state = "pending")
                 => /\ promise'[a] = promise[a]
                    /\ Stale(a)'
                    /\ \A c \in Ctx :
                           (/\ DeliverStep(c)
                            /\ Routed(c, Head(inbox[c]))
                            /\ IsReturn(Head(inbox[c]))
                            /\ Head(inbox[c]).id.id = a)
                           => /\ Target(c, Head(inbox[c])) # promise[a].port
                              /\ a \notin invocationDefers[Target(c, Head(inbox[c]))]
                              /\ Discarded(c)
                              /\ raised' = ""]_vars

\* a proxy of 'math' was obtained, 'math' was registered on the same router,
\* a call through the proxy was answered and its Return handled: the call is
\* pending with its entry in the table of the replaced endpoint
C37_Witness ==
    \E a \in DOMAIN promise :
        /\ promise[a].method = Str("add")
        /\ promise[a].port \in held[1]
        /\ Stale(a)
        /\ callsFor[a] = 1
        /\ returnsFor[a] = 1
        /\ inbox = [c \in Ctx |-> << >>]
        /\ promise[a].state = "pending"
        /\ a \in invocationDefers[promise[a].port]

\* ---- a call whose send throws
\* the calls issued in this step on a transport whose send throws
FailedCalls ==
    {a \in DOMAIN promise' \ DOMAIN promise : sendFails[portObj[promise'[a].port].ctx]}

\* C38: a step in which an endpoint issues a call and transport.send throws
\* records no entry for the call: every pending table is the same after the
\* step as before it
C38_FailedSendRecordsNothing ==
    [][FailedCalls # {}
          => /\ invocationDefers' = invocationDefers
             /\ \A a \in FailedCalls : \A p \in PortRefs : a \notin invocationDefers'[p]]_vars

\* of two calls through one proxy the first was sent and is pending with its
\* entry; the transport then failed for the second, which left no entry
C38_Witness ==
    /\ {"invocation-1", "invocation-2"} \subseteq DOMAIN promise
    /\ promise["invocation-1"].port = promise["invocation-2"].port
    /\ promise["invocation-1"].state = "pending"
    /\ promise["invocation-2"].state = "rejected"
    /\ promise["invocation-2"].value = Err("Transport error")
    /\ invocationDefers[promise["invocation-2"].port] = {"invocation-1"}
    /\ sendFails[1]

\* C39: a callback registered through onMessage is never invoked for a message
\* that was posted after a close() that followed its registration, however
\* many callbacks were registered, and no call of onMessage, of a returned
\* unsubscribe function or of close() raises anything, whatever their number
\* and order
C39_ClosedTransportIsSilent ==
    /\ \A i \in transport.invoked :
           transport.callbacks[i.listener] >= i.message.closes
    /\ raised = ""

\* two callbacks both received the first message, the transport was then closed
\* twice and one unsubscribe function called, and a message posted after
\* the first close has been dispatched
C39_Witness ==
    /\ transport.callbacks = <<0, 0>>
    /\ \A l \in {1, 2} : [listener |-> l, message |-> [n |-> 1, closes |-> 0]]
                             \in transport.invoked
    /\ transport.closes = 2
    /\ transport.calls = 3
    /\ transport.posted = 2
    /\ \E m \in transport.dispatched : m.n = 2 /\ m.closes >= 1

====
